---- MODULE Spec2Model ----
(***************************************************************************)
(* Model of the peer-to-peer connection manager (P2PService) and of the    *)
(* signaling text format of p2p-messenger.                                 *)
(*                                                                         *)
(* One action is one synchronous run of the event loop: an API call up to *)
(* its first await, the continuation of an async call after an await, or  *)
(* a WebRTC event handler.  RTCPeerConnection and RTCDataChannel objects   *)
(* are modelled by their observable state (closed flag, descriptions,     *)
(* readyState, attached handlers).                                         *)
(***************************************************************************)
EXTENDS Integers, Sequences, FiniteSets, TLC

\* ---------------------------------------------------------------- bounds
MaxPc == 3          \* RTCPeerConnection objects allocated in one behaviour
MaxCalls == 2       \* async calls of the service that may be in flight
MaxPending == 2     \* length cap of a pendingSignalingData / stored array
MaxSent == 1        \* writes recorded per data channel
MaxLocalCand == 1   \* icecandidate events per peer connection
MaxBatch == 2       \* entries of an imported array
MaxEvents == 2      \* channel and transport events delivered in one behaviour
MaxApi == 3         \* calls of the service API made in one behaviour
MaxStrLen == 1      \* characters of a contactId string
MaxMsgs == 2        \* SignalingData objects of an exported array
MaxStamp == 7       \* the timestamps are 0, MaxStamp and 10 * MaxStamp

\* ---------------------------------------------------------------- values
Contacts == {"alice", "bob"}
Callbacks == {"cb1", "cb2"}
Msgs == {"m1"}
RemoteCands == {"rc1", "rc2"}

Pcs == 1..MaxPc
ChIds == 1..(2 * MaxPc)
OwnCh(t) == t                 \* channel made by pc.createDataChannel
InCh(t) == MaxPc + t          \* channel delivered by pc.ondatachannel
ChPc(ch) == IF ch <= MaxPc THEN ch ELSE ch - MaxPc

ConnStates == {"connecting", "connected", "disconnected", "failed"}
Terminal == {"disconnected", "failed"}

\* P2PConnection, and the value standing for "no entry in the map"
NoConn ==
  [peerConnection |-> 0, dataChannel |-> 0,
   connectionState |-> "none", iceConnectionState |-> "none"]

\* SignalingData (the timestamp field is part of the codec model below)
SigData(type, contactId, data) ==
  [type |-> type, contactId |-> contactId, data |-> data]

IdleCall ==
  [op |-> "idle", pos |-> "idle", c |-> "none", pc |-> 0, old |-> 0,
   data |-> "none", top |-> "none", rest |-> <<>>, dispatched |-> 0,
   total |-> 0, buffered |-> <<>>]

NoOp ==
  [op |-> "init", c |-> "none", result |-> "none", pc |-> 0, old |-> 0,
   dispatched |-> 0, total |-> 0, buffered |-> <<>>]

VARIABLES
  connections,           \* P2PService.connections
  messageCallbacks,      \* P2PService.messageCallbacks ({} = no entry)
  pendingSignalingData,  \* P2PService.pendingSignalingData (<<>> = no entry)
  iceCandidateCallbacks, \* P2PService.iceCandidateCallbacks
  connectionStates,      \* P2PService._connectionStates
  iceStates,             \* P2PService._iceStates
  pcContact,             \* contactId captured by the handlers of a pc
  pcClosed,              \* pc.close() was called
  pcSignaling,           \* pc.signalingState ("new": stable, nothing set;
                         \* "negotiated": stable, both descriptions set)
  pcConnState,           \* pc.connectionState
  pcIceState,            \* pc.iceConnectionState
  pcCandidates,          \* candidates accepted by pc.addIceCandidate
  pcLocalCands,          \* icecandidate events fired by a pc
  chState,               \* readyState of a data channel
  chHandlers,            \* channels whose onopen/onclose/onerror/onmessage are set
  pcHandlers,            \* pcs whose on* handlers are set
  sent,                  \* payloads written with dataChannel.send
  connData,              \* StorageService connection-data store
  loggedIn,              \* userService.currentUser() is not null
  nEvents,               \* channel and transport events delivered so far
  nApi,                  \* API calls made so far
  calls,                 \* async calls in flight
  lastOp,                \* the step just taken and its outcome
  codecIn,               \* codec model: the array handed to exportSignalingData
  codecText,             \* codec model: the exported text
  codecOut,              \* codec model: the array read back by the import
  cryptoIn,              \* encryption model: plaintext and the two keys
  cryptoEnv,             \* encryption model: the envelope made from it
  cryptoOut,             \* encryption model: what decryption returned
  msgStore,              \* StorageService: the messages store
  messages,              \* MessageService._messages
  currentContactId,      \* MessageService._currentContactId ("none" = null)
  messageUnsubscribers,  \* MessageService.messageUnsubscribers (its keys)
  unreadCount,           \* ContactService: unreadCount of each contact
  lastMessageTimestamp,  \* ContactService: lastMessageTimestamp (0 = none)
  nMsgs,                 \* Message objects built so far
  msgCall,               \* the MessageService call that is running
  parked,                \* MessageService calls waiting for what they await
  msgOp                  \* the MessageService call just ended and its outcome

mgrVars ==
  <<connections, messageCallbacks, pendingSignalingData,
    iceCandidateCallbacks, connectionStates, iceStates, pcContact, pcClosed,
    pcSignaling, pcConnState, pcIceState, pcCandidates, pcLocalCands,
    chState, chHandlers, pcHandlers, sent, connData, loggedIn, nEvents,
    nApi, calls, lastOp>>

codecVars == <<codecIn, codecText, codecOut>>

cryptoVars == <<cryptoIn, cryptoEnv, cryptoOut>>

msgVars ==
  <<msgStore, messages, currentContactId, messageUnsubscribers, unreadCount,
    lastMessageTimestamp, nMsgs, msgCall, parked, msgOp>>

\* what the P2PService does not touch
sideVars == <<codecVars, cryptoVars, parked, msgVars>>

vars == <<mgrVars, sideVars>>

pcVars ==
  <<pcContact, pcClosed, pcSignaling, pcConnState, pcIceState,
    pcCandidates, pcLocalCands>>

\* ---------------------------------------------------------------- helpers
Op(op, c, result) ==
  [op |-> op, c |-> c, result |-> result, pc |-> 0, old |-> 0,
   dispatched |-> 0, total |-> 0, buffered |-> <<>>, callbacks |-> {}]

HasConnection(c) == connections[c].peerConnection # 0

GetConnectionState(c) ==
  IF connectionStates[c] = "absent" THEN "disconnected"
  ELSE connectionStates[c]

Allocated == {t \in Pcs : pcContact[t] # "none"}
NextPc == Cardinality(Allocated) + 1

\* updateConnectionState, as the new value of each of the two things it writes
StatesAfterUpdate(c, s) == [connectionStates EXCEPT ![c] = s]
ConnsAfterUpdate(conns, c, s) ==
  IF conns[c].peerConnection # 0
  THEN [conns EXCEPT ![c].connectionState = s]
  ELSE conns

\* updateIceState
IceAfterUpdate(c, s) == [iceStates EXCEPT ![c] = s]
ConnsAfterIce(conns, c, s) ==
  IF conns[c].peerConnection # 0
  THEN [conns EXCEPT ![c].iceConnectionState = s]
  ELSE conns

\* storeSignalingData
PendingAfterStore(c, d) ==
  [pendingSignalingData EXCEPT ![c] = Append(@, d)]

Slots == 1..MaxCalls

\* a continuation that runs as a microtask is waiting: no task (no event, no
\* completion of a storage or WebRTC request) runs before it
MicrotaskPending == \E k \in Slots : calls[k].pos \in {"cc_wait", "loop"}

\* the remote candidates in the pending buffer of c, in buffer order
IsRemoteCandidate(d) == d.type = "ice-candidate" /\ d.data \in RemoteCands
BufferedCandidates(c) ==
  LET sel == SelectSeq(pendingSignalingData[c], IsRemoteCandidate)
  IN [i \in 1..Len(sel) |-> sel[i].data]

\* ------------------------------------------------ JSON text
\* A JavaScript value that JSON can carry: k is its kind; s the characters
\* of a string; n a number (or 1/0 for true/false); m the members of an
\* object as <<key, value>> pairs in property order, or the items of an
\* array as <<<<>>, value>> pairs.
JVal(k, str, n, m) == [k |-> k, s |-> str, n |-> n, m |-> m]
JNone == JVal("none", <<>>, 0, <<>>)
JSyntaxError == JVal("SyntaxError", <<>>, 0, <<>>)
JNull == JVal("null", <<>>, 0, <<>>)
JStr(str) == JVal("string", str, 0, <<>>)
JNum(n) == JVal("number", <<>>, n, <<>>)
JBool(b) == JVal("boolean", <<>>, IF b THEN 1 ELSE 0, <<>>)
JObj(m) == JVal("object", <<>>, 0, m)
JArr(items) == JVal("array", <<>>, 0, [i \in 1..Len(items) |-> << <<>>, items[i] >>])

DigitChars == <<"0", "1", "2", "3", "4", "5", "6", "7", "8", "9">>
IsDigit(ch) == \E d \in 1..10 : DigitChars[d] = ch
DigitOf(ch) == (CHOOSE d \in 1..10 : DigitChars[d] = ch) - 1

\* a character of a string as it would be written if only the quote were
\* escaped
EscapeQuoteOnly(ch) ==
  IF ch = "\"" THEN <<"\\", "\"">> ELSE <<ch>>

\* JSON.stringify: a character of a string as it is written between quotes
EscapeChar(ch) ==
  CASE ch = "\"" -> <<"\\", "\"">>
    [] ch = "\\" -> <<"\\", "\\">>
    [] ch = "\n" -> <<"\\", "n">>
    [] ch = "\r" -> <<"\\", "r">>
    [] ch = "\t" -> <<"\\", "t">>
    [] OTHER -> <<ch>>

RECURSIVE EscapeFrom(_, _)
EscapeFrom(str, i) ==
  IF i > Len(str) THEN <<>>
  ELSE EscapeChar(str[i]) \o EscapeFrom(str, i + 1)

Quote(str) == <<"\"">> \o EscapeFrom(str, 1) \o <<"\"">>

\* the decimal digits of a non-negative integer
RECURSIVE Digits(_)
Digits(n) ==
  IF n < 10 THEN <<DigitChars[n + 1]>>
  ELSE Digits(n \div 10) \o <<DigitChars[(n % 10) + 1]>>

\* the line break and the two spaces per level that the space argument 2 of
\* JSON.stringify puts before every member and item
Indent(d) == <<"\n">> \o [i \in 1..(2 * d) |-> " "]

RECURSIVE SerializeJSON(_, _)
RECURSIVE SerializeMembers(_, _, _)
SerializeMembers(v, i, d) ==
  LET key == v.m[i][1]
      one == Indent(d + 1)
             \o (IF v.k = "object" THEN Quote(key) \o <<":", " ">> ELSE <<>>)
             \o SerializeJSON(v.m[i][2], d + 1)
  IN IF i = Len(v.m) THEN one
     ELSE one \o <<",">> \o SerializeMembers(v, i + 1, d)

SerializeJSON(v, d) ==
  CASE v.k = "string" -> Quote(v.s)
    [] v.k = "number" -> Digits(v.n)
    [] v.k = "boolean" -> IF v.n = 1 THEN <<"t", "r", "u", "e">>
                          ELSE <<"f", "a", "l", "s", "e">>
    [] v.k = "null" -> <<"n", "u", "l", "l">>
    [] v.k = "object" ->
         IF v.m = <<>> THEN <<"{", "}">>
         ELSE <<"{">> \o SerializeMembers(v, 1, d) \o Indent(d) \o <<"}">>
    [] v.k = "array" ->
         IF v.m = <<>> THEN <<"[", "]">>
         ELSE <<"[">> \o SerializeMembers(v, 1, d) \o Indent(d) \o <<"]">>

\* JSON.stringify(value, null, 2)
JSONstringify(v) == SerializeJSON(v, 0)

\* JSON.parse, reading the characters of text from a position; a result is
\* the value read and the position after it, or a failure
Parsed(v, next) == [ok |-> TRUE, v |-> v, next |-> next]
ParseFail == [ok |-> FALSE, v |-> JSyntaxError, next |-> 0]

CharAt(text, i) == IF i >= 1 /\ i <= Len(text) THEN text[i] ELSE "EOF"

RECURSIVE SkipWhitespace(_, _)
SkipWhitespace(text, i) ==
  IF CharAt(text, i) \in {" ", "\n", "\t", "\r"}
  THEN SkipWhitespace(text, i + 1)
  ELSE i

\* the character an escape sequence stands for ("" when JSON has no such
\* escape; \u escapes are outside the alphabet of the model)
Unescape(ch) ==
  CASE ch = "\"" -> "\""
    [] ch = "\\" -> "\\"
    [] ch = "/" -> "/"
    [] ch = "n" -> "\n"
    [] ch = "r" -> "\r"
    [] ch = "t" -> "\t"
    [] OTHER -> ""

\* a string from the position after its opening quote; a raw control
\* character inside a string is a syntax error
RECURSIVE ParseString(_, _, _)
ParseString(text, i, acc) ==
  LET ch == CharAt(text, i) IN
  IF ch = "EOF" \/ ch \in {"\n", "\r", "\t"} THEN ParseFail
  ELSE IF ch = "\"" THEN Parsed(JStr(acc), i + 1)
  ELSE IF ch = "\\"
       THEN IF Unescape(CharAt(text, i + 1)) = "" THEN ParseFail
            ELSE ParseString(text, i + 2,
                             Append(acc, Unescape(CharAt(text, i + 1))))
  ELSE ParseString(text, i + 1, Append(acc, ch))

\* a number: "0", or a digit from 1 to 9 and the digits after it
RECURSIVE ParseDigits(_, _, _)
ParseDigits(text, i, n) ==
  IF IsDigit(CharAt(text, i))
  THEN ParseDigits(text, i + 1, 10 * n + DigitOf(CharAt(text, i)))
  ELSE Parsed(JNum(n), i)

ParseNumber(text, i) ==
  IF CharAt(text, i) = "0" THEN Parsed(JNum(0), i + 1)
  ELSE ParseDigits(text, i, 0)

ParseLiteral(text, i, word, v) ==
  IF \A j \in 1..Len(word) : CharAt(text, i + j - 1) = word[j]
  THEN Parsed(v, i + Len(word))
  ELSE ParseFail

\* a key given twice keeps its place and takes the later value
SetMember(m, key, v) ==
  IF \E i \in 1..Len(m) : m[i][1] = key
  THEN [i \in 1..Len(m) |-> IF m[i][1] = key THEN <<key, v>> ELSE m[i]]
  ELSE Append(m, <<key, v>>)

RECURSIVE ParseValue(_, _)
RECURSIVE ParseItems(_, _, _)
RECURSIVE ParseMembers(_, _, _)

\* the items of an array from the first character of an item
ParseItems(text, i, acc) ==
  LET r == ParseValue(text, i)
      j == SkipWhitespace(text, r.next)
      items == Append(acc, << <<>>, r.v >>)
  IN IF ~r.ok THEN ParseFail
     ELSE IF CharAt(text, j) = "," THEN ParseItems(text, j + 1, items)
     ELSE IF CharAt(text, j) = "]"
          THEN Parsed(JVal("array", <<>>, 0, items), j + 1)
     ELSE ParseFail

\* the members of an object from the opening quote of a key
ParseMembers(text, i, acc) ==
  LET key == IF CharAt(text, i) = "\"" THEN ParseString(text, i + 1, <<>>)
             ELSE ParseFail
      colon == SkipWhitespace(text, key.next)
      r == IF key.ok /\ CharAt(text, colon) = ":"
           THEN ParseValue(text, colon + 1)
           ELSE ParseFail
      j == SkipWhitespace(text, r.next)
      m == SetMember(acc, key.v.s, r.v)
  IN IF ~r.ok THEN ParseFail
     ELSE IF CharAt(text, j) = ","
          THEN ParseMembers(text, SkipWhitespace(text, j + 1), m)
     ELSE IF CharAt(text, j) = "}" THEN Parsed(JObj(m), j + 1)
     ELSE ParseFail

ParseValue(text, i) ==
  LET j == SkipWhitespace(text, i)
      ch == CharAt(text, j)
      in == SkipWhitespace(text, j + 1)
  IN CASE ch = "\"" -> ParseString(text, j + 1, <<>>)
       [] ch = "{" -> IF CharAt(text, in) = "}" THEN Parsed(JObj(<<>>), in + 1)
                      ELSE ParseMembers(text, in, <<>>)
       [] ch = "[" -> IF CharAt(text, in) = "]"
                      THEN Parsed(JVal("array", <<>>, 0, <<>>), in + 1)
                      ELSE ParseItems(text, in, <<>>)
       [] ch = "n" -> ParseLiteral(text, j, <<"n", "u", "l", "l">>, JNull)
       [] ch = "t" -> ParseLiteral(text, j, <<"t", "r", "u", "e">>, JBool(TRUE))
       [] ch = "f" -> ParseLiteral(text, j, <<"f", "a", "l", "s", "e">>, JBool(FALSE))
       [] IsDigit(ch) -> ParseNumber(text, j)
       [] OTHER -> ParseFail

\* JSON.parse(text): one value and nothing but whitespace after it
JSONparse(text) ==
  LET r == ParseValue(text, 1) IN
  IF r.ok /\ SkipWhitespace(text, r.next) = Len(text) + 1 THEN r.v
  ELSE JSyntaxError

\* ------------------------------------------------ encryption values
\* the outcome of a step that can throw: the value, or the name of the error
Ok(v) == [error |-> "none", value |-> v]
Err(e) == [error |-> e, value |-> <<>>]

NoInput == [kind |-> "none", data |-> <<>>, publicKey |-> 0, privateKey |-> 0]
NoEnvelope == [encryptedData |-> <<>>, encryptedKey |-> <<>>, iv |-> <<>>]
NoResult == [error |-> "pending", value |-> <<>>]

\* ------------------------------------------------ message service values
\* the envelope bundle and the Message of no call
NoPayload == <<>>
NoMessage ==
  [id |-> 0, senderId |-> "none", recipientId |-> "none", content |-> <<>>,
   attachment |-> <<>>, timestamp |-> 0, encrypted |-> FALSE,
   delivered |-> FALSE, read |-> FALSE]

IdleMsgCall ==
  [op |-> "idle", pos |-> "idle", c |-> "none", text |-> <<>>, file |-> <<>>,
   encryptedContent |-> NoEnvelope, encryptedAttachment |-> NoEnvelope,
   attach |-> FALSE, message |-> NoMessage, payload |-> NoPayload,
   session |-> FALSE, connected |-> FALSE, wrote |-> FALSE, todo |-> <<>>,
   active |-> FALSE, before |-> <<>>, seq |-> 0,
   data |-> [kind |-> "text", members |-> <<>>]]

NoMsgOp ==
  [op |-> "init", c |-> "none", result |-> "none", id |-> 0,
   payload |-> NoPayload, session |-> FALSE, connected |-> FALSE,
   wrote |-> FALSE, active |-> FALSE, rejected |-> FALSE, before |-> <<>>]

\* the fields of a new MessageService and of the stores it works on
MessageInit ==
  /\ msgStore = <<>>
  /\ messages = <<>>
  /\ currentContactId = "none"
  /\ messageUnsubscribers = {}
  /\ unreadCount = [c \in Contacts |-> 0]
  /\ lastMessageTimestamp = [c \in Contacts |-> 0]
  /\ nMsgs = 0
  /\ msgCall = IdleMsgCall
  /\ parked = {}
  /\ msgOp = NoMsgOp

FreeSlots == {k \in Slots : calls[k].op = "idle"}
FreeSlot == CHOOSE k \in FreeSlots : \A j \in FreeSlots : k <= j

Init ==
  /\ connections = [c \in Contacts |-> NoConn]
  /\ messageCallbacks = [c \in Contacts |-> {}]
  /\ pendingSignalingData = [c \in Contacts |-> <<>>]
  /\ iceCandidateCallbacks = [c \in Contacts |-> "none"]
  /\ connectionStates = [c \in Contacts |-> "absent"]
  /\ iceStates = [c \in Contacts |-> "absent"]
  /\ pcContact = [t \in Pcs |-> "none"]
  /\ pcClosed = [t \in Pcs |-> FALSE]
  /\ pcSignaling = [t \in Pcs |-> "new"]
  /\ pcConnState = [t \in Pcs |-> "new"]
  /\ pcIceState = [t \in Pcs |-> "new"]
  /\ pcCandidates = [t \in Pcs |-> <<>>]
  /\ pcLocalCands = [t \in Pcs |-> 0]
  /\ chState = [ch \in ChIds |-> "absent"]
  /\ chHandlers = {}
  /\ pcHandlers = {}
  /\ sent = [ch \in ChIds |-> <<>>]
  /\ connData = [c \in Contacts |-> <<>>]
  /\ loggedIn \in BOOLEAN
  /\ nEvents = 0
  /\ nApi = 0
  /\ calls = [k \in Slots |-> IdleCall]
  /\ lastOp = NoOp
  /\ codecIn = JNone
  /\ codecText = <<>>
  /\ codecOut = JNone
  /\ cryptoIn = NoInput
  /\ cryptoEnv = NoEnvelope
  /\ cryptoOut = NoResult
  /\ MessageInit


\* ------------------------------------------------ closeConnection (body)
\* The state written by closeConnection(c) when a connection exists:
\* dataChannel.close(), peerConnection.close() (which also sets the two
\* state attributes of the pc to "closed"), then the five map deletes.
\* A closed channel is "closing" until its close event has been delivered.
\* closeConnection as it would be with clear() in place of delete(contactId)
\* on the callback and signaling maps
CloseUpdatesClearing(c) ==
  LET t == connections[c].peerConnection IN
  /\ chState' = [ch \in ChIds |->
        IF /\ (ch = connections[c].dataChannel \/ ChPc(ch) = t)
           /\ chState[ch] \in {"connecting", "open"}
        THEN "closing" ELSE chState[ch]]
  /\ pcClosed' = [pcClosed EXCEPT ![t] = TRUE]
  /\ pcSignaling' = [pcSignaling EXCEPT ![t] = "closed"]
  /\ pcConnState' = [pcConnState EXCEPT ![t] = "closed"]
  /\ pcIceState' = [pcIceState EXCEPT ![t] = "closed"]
  /\ connections' = [connections EXCEPT ![c] = NoConn]
  /\ messageCallbacks' = [x \in Contacts |-> {}]
  /\ pendingSignalingData' = [x \in Contacts |-> <<>>]
  /\ connectionStates' = [connectionStates EXCEPT ![c] = "absent"]
  /\ iceStates' = [iceStates EXCEPT ![c] = "absent"]

CloseUpdates(c) ==
  LET t == connections[c].peerConnection IN
  /\ chState' = [ch \in ChIds |->
        IF /\ (ch = connections[c].dataChannel \/ ChPc(ch) = t)
           /\ chState[ch] \in {"connecting", "open"}
        THEN "closing" ELSE chState[ch]]
  /\ pcClosed' = [pcClosed EXCEPT ![t] = TRUE]
  /\ pcSignaling' = [pcSignaling EXCEPT ![t] = "closed"]
  /\ pcConnState' = [pcConnState EXCEPT ![t] = "closed"]
  /\ pcIceState' = [pcIceState EXCEPT ![t] = "closed"]
  /\ connections' = [connections EXCEPT ![c] = NoConn]
  /\ messageCallbacks' = [messageCallbacks EXCEPT ![c] = {}]
  /\ pendingSignalingData' = [pendingSignalingData EXCEPT ![c] = <<>>]
  /\ connectionStates' = [connectionStates EXCEPT ![c] = "absent"]
  /\ iceStates' = [iceStates EXCEPT ![c] = "absent"]

\* closeConnection as it would be without the early return: the maps of the
\* contact are cleared also when there is no connection to close
CloseConnectionUnguarded(c) ==
  /\ nApi < MaxApi
  /\ nApi' = nApi + 1
  /\ lastOp' = Op("closeConnection", c, IF HasConnection(c) THEN "ok" ELSE "noop")
  /\ IF HasConnection(c)
     THEN /\ CloseUpdates(c)
          /\ UNCHANGED <<iceCandidateCallbacks, pcContact,
                         pcCandidates, pcLocalCands, chHandlers, pcHandlers,
                         sent, connData, loggedIn, nEvents, calls>>
     ELSE /\ messageCallbacks' = [messageCallbacks EXCEPT ![c] = {}]
          /\ pendingSignalingData' = [pendingSignalingData EXCEPT ![c] = <<>>]
          /\ connectionStates' = [connectionStates EXCEPT ![c] = "absent"]
          /\ iceStates' = [iceStates EXCEPT ![c] = "absent"]
          /\ UNCHANGED <<connections, iceCandidateCallbacks, pcVars, chState,
                         chHandlers, pcHandlers, sent, connData, loggedIn,
                         nEvents, calls>>
  /\ UNCHANGED sideVars

CloseConnection(c) ==
  /\ nApi < MaxApi
  /\ nApi' = nApi + 1
  /\ lastOp' = Op("closeConnection", c, IF HasConnection(c) THEN "ok" ELSE "noop")
  /\ IF HasConnection(c)
     THEN /\ CloseUpdates(c)
          /\ UNCHANGED <<iceCandidateCallbacks, pcContact,
                         pcCandidates, pcLocalCands, chHandlers, pcHandlers,
                         sent, connData, loggedIn, nEvents, calls>>
     ELSE UNCHANGED <<connections, messageCallbacks, pendingSignalingData,
                      iceCandidateCallbacks, connectionStates, iceStates,
                      pcVars, chState, chHandlers, pcHandlers, sent, connData,
                      loggedIn, nEvents, calls>>
  /\ UNCHANGED sideVars

\* ------------------------------------------------ sendMessage
SendMessage(m, c) ==
  LET conn == connections[c]
      ch == conn.dataChannel
      open == /\ HasConnection(c)
              /\ ch # 0
              /\ chState[ch] = "open"
  IN
  /\ nApi < MaxApi
  /\ nApi' = nApi + 1
  /\ open => Len(sent[ch]) < MaxSent
  /\ lastOp' = Op("sendMessage", c,
                  IF ~HasConnection(c) THEN "NoConnection"
                  ELSE IF ~open THEN "ChannelNotOpen" ELSE "ok")
  /\ sent' = IF open THEN [sent EXCEPT ![ch] = Append(@, m)] ELSE sent
  /\ UNCHANGED <<connections, messageCallbacks, pendingSignalingData,
                 iceCandidateCallbacks, connectionStates, iceStates, pcVars,
                 chState, chHandlers, pcHandlers, connData, loggedIn, nEvents, calls>>
  /\ UNCHANGED sideVars

\* ------------------------------------------------ onMessage
\* lastOp.callbacks keeps the callbacks the contact had before the call
\* onMessage as it would be with one callback per contact
OnMessageReplacing(c, cb) ==
  /\ nApi < MaxApi
  /\ nApi' = nApi + 1
  /\ messageCallbacks' = [messageCallbacks EXCEPT ![c] = {cb}]
  /\ lastOp' = [Op("onMessage", c, cb) EXCEPT !.callbacks = messageCallbacks[c]]
  /\ UNCHANGED <<connections, pendingSignalingData, iceCandidateCallbacks,
                 connectionStates, iceStates, pcVars, chState, chHandlers,
                 pcHandlers, sent, connData, loggedIn, nEvents, calls>>
  /\ UNCHANGED sideVars

OnMessage(c, cb) ==
  /\ nApi < MaxApi
  /\ nApi' = nApi + 1
  /\ messageCallbacks' = [messageCallbacks EXCEPT ![c] = @ \cup {cb}]
  /\ lastOp' = [Op("onMessage", c, cb) EXCEPT !.callbacks = messageCallbacks[c]]
  /\ UNCHANGED <<connections, pendingSignalingData, iceCandidateCallbacks,
                 connectionStates, iceStates, pcVars, chState, chHandlers,
                 pcHandlers, sent, connData, loggedIn, nEvents, calls>>
  /\ UNCHANGED sideVars

\* the unsubscribe function returned by onMessage(c, cb); on a callback that
\* is no longer registered it changes nothing
Unsubscribe(c, cb) ==
  /\ nApi < MaxApi
  /\ nApi' = nApi + 1
  /\ cb \in messageCallbacks[c]
  /\ messageCallbacks' = [messageCallbacks EXCEPT ![c] = @ \ {cb}]
  /\ lastOp' = [Op("unsubscribe", c, cb)
                  EXCEPT !.callbacks = messageCallbacks[c]]
  /\ UNCHANGED <<connections, pendingSignalingData, iceCandidateCallbacks,
                 connectionStates, iceStates, pcVars, chState, chHandlers,
                 pcHandlers, sent, connData, loggedIn, nEvents, calls>>
  /\ UNCHANGED sideVars

\* ------------------------------------------------ onIceCandidateGenerated
OnIceCandidateGenerated(c, cb) ==
  /\ nApi < MaxApi
  /\ nApi' = nApi + 1
  /\ iceCandidateCallbacks' = [iceCandidateCallbacks EXCEPT ![c] = cb]
  /\ lastOp' = Op("onIceCandidateGenerated", c, cb)
  /\ UNCHANGED <<connections, messageCallbacks, pendingSignalingData,
                 connectionStates, iceStates, pcVars, chState, chHandlers,
                 pcHandlers, sent, connData, loggedIn, nEvents, calls>>
  /\ UNCHANGED sideVars

IceUnsubscribe(c) ==
  /\ nApi < MaxApi
  /\ nApi' = nApi + 1
  /\ iceCandidateCallbacks[c] # "none"
  /\ iceCandidateCallbacks' = [iceCandidateCallbacks EXCEPT ![c] = "none"]
  /\ lastOp' = Op("iceUnsubscribe", c, "ok")
  /\ UNCHANGED <<connections, messageCallbacks, pendingSignalingData,
                 connectionStates, iceStates, pcVars, chState, chHandlers,
                 pcHandlers, sent, connData, loggedIn, nEvents, calls>>
  /\ UNCHANGED sideVars

\* ------------------------------------------------ WebRTC events
Negotiated(t) == pcSignaling[t] = "negotiated"
HasLocal(t) == pcSignaling[t] \in {"have-local-offer", "negotiated"}
HasRemote(t) == pcSignaling[t] \in {"have-remote-offer", "negotiated"}

\* channel.onopen of a channel made by createDataChannel: the channel
\* becomes open and its open event is fired in one task
ChannelOpen(ch) ==
  LET t == ChPc(ch)
      c == pcContact[t] IN
  /\ ~MicrotaskPending
  /\ ch \in chHandlers
  /\ ~pcClosed[t]
  /\ chState[ch] = "connecting"
  /\ Negotiated(t)
  /\ chState' = [chState EXCEPT ![ch] = "open"]
  /\ connectionStates' = StatesAfterUpdate(c, "connected")
  /\ connections' = ConnsAfterUpdate(connections, c, "connected")
  /\ nEvents < MaxEvents
  /\ nEvents' = nEvents + 1
  /\ UNCHANGED nApi
  /\ lastOp' = [Op("channel.onopen", c, "ok") EXCEPT !.pc = t]
  /\ UNCHANGED <<messageCallbacks, pendingSignalingData,
                 iceCandidateCallbacks, iceStates, pcVars, chHandlers,
                 pcHandlers, sent, connData, loggedIn, calls>>
  /\ UNCHANGED sideVars

\* channel.onclose: the peer closed the channel, or the close started by
\* closeConnection has completed
ChannelClose(ch) ==
  LET t == ChPc(ch)
      c == pcContact[t] IN
  /\ ~MicrotaskPending
  /\ ch \in chHandlers
  /\ chState[ch] \in {"open", "closing"}
  /\ chState' = [chState EXCEPT ![ch] = "closed"]
  /\ connectionStates' = StatesAfterUpdate(c, "disconnected")
  /\ connections' = ConnsAfterUpdate(connections, c, "disconnected")
  /\ nEvents < MaxEvents
  /\ nEvents' = nEvents + 1
  /\ UNCHANGED nApi
  /\ lastOp' = [Op("channel.onclose", c, "ok") EXCEPT !.pc = t]
  /\ UNCHANGED <<messageCallbacks, pendingSignalingData,
                 iceCandidateCallbacks, iceStates, pcVars, chHandlers,
                 pcHandlers, sent, connData, loggedIn, calls>>
  /\ UNCHANGED sideVars

\* channel.onerror
ChannelError(ch) ==
  LET t == ChPc(ch)
      c == pcContact[t] IN
  /\ ~MicrotaskPending
  /\ ch \in chHandlers
  /\ ~pcClosed[t]
  /\ chState[ch] \in {"connecting", "open"}
  /\ Negotiated(t)
  /\ chState' = [chState EXCEPT ![ch] = "closing"]
  /\ connectionStates' = StatesAfterUpdate(c, "failed")
  /\ connections' = ConnsAfterUpdate(connections, c, "failed")
  /\ nEvents < MaxEvents
  /\ nEvents' = nEvents + 1
  /\ UNCHANGED nApi
  /\ lastOp' = [Op("channel.onerror", c, "ok") EXCEPT !.pc = t]
  /\ UNCHANGED <<messageCallbacks, pendingSignalingData,
                 iceCandidateCallbacks, iceStates, pcVars, chHandlers,
                 pcHandlers, sent, connData, loggedIn, calls>>
  /\ UNCHANGED sideVars

\* channel.onmessage: every callback registered for the contact is invoked;
\* lastOp keeps the callbacks invoked and the number of invocations
ChannelMessage(ch, m) ==
  LET t == ChPc(ch)
      c == pcContact[t] IN
  /\ ~MicrotaskPending
  /\ ch \in chHandlers
  /\ ~pcClosed[t]
  /\ chState[ch] = "open"
  /\ nEvents < MaxEvents
  /\ nEvents' = nEvents + 1
  /\ UNCHANGED nApi
  /\ lastOp' = [Op("channel.onmessage", c,
                   IF messageCallbacks[c] = {} THEN "dropped" ELSE "delivered")
                EXCEPT !.pc = t, !.callbacks = messageCallbacks[c],
                       !.dispatched = Cardinality(messageCallbacks[c])]
  /\ UNCHANGED <<connections, messageCallbacks, pendingSignalingData,
                 iceCandidateCallbacks, connectionStates, iceStates, pcVars,
                 chState, chHandlers, pcHandlers, sent, connData, loggedIn,
                 calls>>
  /\ UNCHANGED sideVars

\* pc.ondatachannel -> setupDataChannel(event.channel, contactId), and the
\* channel.onopen that follows it.  The user agent sets the incoming channel
\* to open, fires datachannel at the pc and then open at the channel in one
\* task, so the two handlers run back to back.
PcDataChannel(t) ==
  LET c == pcContact[t]
      ch == InCh(t)
      conns == IF HasConnection(c)
               THEN [connections EXCEPT ![c].dataChannel = ch]
               ELSE connections IN
  /\ ~MicrotaskPending
  /\ t \in pcHandlers
  /\ ~pcClosed[t]
  /\ Negotiated(t)
  /\ chState[ch] = "absent"
  /\ chState' = [chState EXCEPT ![ch] = "open"]
  /\ chHandlers' = chHandlers \cup {ch}
  /\ connectionStates' = StatesAfterUpdate(c, "connected")
  /\ connections' = ConnsAfterUpdate(conns, c, "connected")
  /\ nEvents < MaxEvents
  /\ nEvents' = nEvents + 1
  /\ UNCHANGED nApi
  /\ lastOp' = [Op("channel.onopen", c, "incoming") EXCEPT !.pc = t]
  /\ UNCHANGED <<messageCallbacks, pendingSignalingData,
                 iceCandidateCallbacks, iceStates, pcVars,
                 pcHandlers, sent, connData, loggedIn, calls>>
  /\ UNCHANGED sideVars

\* pc.connectionState changes the user agent can report; the state is
\* "new" again when every transport of the connection has been closed
PcTransitions ==
  { <<"new", "connecting">>, <<"connecting", "connected">>,
    <<"connecting", "failed">>, <<"connected", "disconnected">>,
    <<"disconnected", "connected">>, <<"disconnected", "failed">>,
    <<"connecting", "new">>, <<"connected", "new">>,
    <<"disconnected", "new">> }

\* pc.onconnectionstatechange
PcConnectionStateChange(t, s) ==
  LET c == pcContact[t] IN
  /\ ~MicrotaskPending
  /\ t \in pcHandlers
  /\ ~pcClosed[t]
  /\ Negotiated(t)
  /\ <<pcConnState[t], s>> \in PcTransitions
  /\ pcConnState' = [pcConnState EXCEPT ![t] = s]
  /\ connectionStates' = StatesAfterUpdate(c, s)
  /\ connections' = ConnsAfterUpdate(connections, c, s)
  /\ nEvents < MaxEvents
  /\ nEvents' = nEvents + 1
  /\ UNCHANGED nApi
  /\ lastOp' = [Op("pc.onconnectionstatechange", c, s) EXCEPT !.pc = t]
  /\ UNCHANGED <<messageCallbacks, pendingSignalingData,
                 iceCandidateCallbacks, iceStates, pcContact, pcClosed,
                 pcSignaling, pcIceState, pcCandidates, pcLocalCands,
                 chState, chHandlers, pcHandlers, sent, connData, loggedIn,
                 calls>>
  /\ UNCHANGED sideVars


\* pc.iceConnectionState changes the user agent can report
IceTransitions ==
  { <<"new", "checking">>, <<"checking", "connected">>,
    <<"checking", "failed">>, <<"connected", "disconnected">>,
    <<"disconnected", "connected">>, <<"disconnected", "failed">> }

\* pc.oniceconnectionstatechange
PcIceStateChange(t, s) ==
  LET c == pcContact[t] IN
  /\ ~MicrotaskPending
  /\ t \in pcHandlers
  /\ ~pcClosed[t]
  /\ Negotiated(t)
  /\ <<pcIceState[t], s>> \in IceTransitions
  /\ pcIceState' = [pcIceState EXCEPT ![t] = s]
  /\ iceStates' = IceAfterUpdate(c, s)
  /\ connections' = ConnsAfterIce(connections, c, s)
  /\ nEvents < MaxEvents
  /\ nEvents' = nEvents + 1
  /\ UNCHANGED nApi
  /\ lastOp' = [Op("pc.oniceconnectionstatechange", c, s) EXCEPT !.pc = t]
  /\ UNCHANGED <<messageCallbacks, pendingSignalingData,
                 iceCandidateCallbacks, connectionStates, pcContact, pcClosed,
                 pcSignaling, pcConnState, pcCandidates, pcLocalCands,
                 chState, chHandlers, pcHandlers, sent, connData, loggedIn,
                 calls>>
  /\ UNCHANGED sideVars

\* ------------------------------------------------ async calls
\* The end of an async call in slot k; lastOp keeps what the call did (the pc
\* it made, the pc it closed, the remote candidates that were buffered when
\* it made its pc).  A call made by the loop of
\* importSignalingData returns into the loop; an exception there reaches the
\* catch of importSignalingData, which rethrows "Invalid signaling data
\* format" and so ends the loop.
Finish(k, rec, result) ==
  IF rec.top = "import"
  THEN IF result \notin {"ok"}
       THEN /\ calls' = [calls EXCEPT ![k] = IdleCall]
            /\ lastOp' = [Op("importSignalingData", rec.c, "InvalidFormat")
                          EXCEPT !.dispatched = rec.dispatched,
                                 !.total = rec.total]
       ELSE IF rec.rest = <<>>
       THEN /\ calls' = [calls EXCEPT ![k] = IdleCall]
            /\ lastOp' = [Op("importSignalingData", rec.c, "ok")
                          EXCEPT !.dispatched = rec.dispatched,
                                 !.total = rec.total]
       ELSE /\ calls' = [calls EXCEPT ![k] =
                          [rec EXCEPT !.op = "importSignalingData",
                                      !.pos = "loop", !.pc = 0, !.old = 0,
                                      !.buffered = <<>>]]
            /\ lastOp' = [Op(rec.op, rec.c, result) EXCEPT !.pc = rec.pc,
                                                          !.old = rec.old,
                                                          !.buffered = rec.buffered]
  ELSE /\ calls' = [calls EXCEPT ![k] = IdleCall]
       /\ lastOp' = [Op(rec.op, rec.c, result) EXCEPT !.pc = rec.pc,
                                                     !.old = rec.old,
                                                     !.buffered = rec.buffered]

\* an await inside the call in slot k: the call stays in flight at pos
Await(k, rec, pos) ==
  /\ calls' = [calls EXCEPT ![k] = [rec EXCEPT !.pos = pos]]
  /\ lastOp' = [Op(rec.op, rec.c, "pending") EXCEPT !.pc = rec.pc,
                                                   !.old = rec.old]

DirectCall(op, c, data) ==
  [IdleCall EXCEPT !.op = op, !.c = c, !.data = data, !.top = "direct"]

\* createConnection from "const pc = new RTCPeerConnection" to "return pc":
\* the channel is created, setupDataChannel and the pc handlers are set, the
\* connection is put in the map (over whatever entry is there) and the two
\* state maps are written.
AllocUpdates(c, t) ==
  /\ pcContact' = [pcContact EXCEPT ![t] = c]
  /\ chState' = [chState EXCEPT ![OwnCh(t)] = "connecting"]
  /\ chHandlers' = chHandlers \cup {OwnCh(t)}
  /\ pcHandlers' = pcHandlers \cup {t}
  /\ connections' = [connections EXCEPT ![c] =
        [peerConnection |-> t, dataChannel |-> OwnCh(t),
         connectionState |-> "connecting", iceConnectionState |-> "new"]]
  /\ connectionStates' = StatesAfterUpdate(c, "connecting")
  /\ iceStates' = IceAfterUpdate(c, "new")

\* where the caller of createConnection goes on once it has the pc
AfterCreate(k, rec) ==
  CASE rec.op = "createConnection" -> Finish(k, rec, "ok")
    [] rec.op = "sendOffer" -> Await(k, rec, "so_desc")
    [] rec.op = "handleOffer" -> Await(k, rec, "ho_remote")

\* createConnection up to its first await: with a connection in the map it
\* runs closeConnection and awaits it, without one it runs to the end
CreateStart(k, rec) ==
  LET c == rec.c IN
  IF HasConnection(c)
  THEN /\ CloseUpdates(c)
       /\ Await(k, [rec EXCEPT !.old = connections[c].peerConnection], "cc_wait")
       /\ UNCHANGED <<iceCandidateCallbacks, pcContact,
                      pcCandidates, pcLocalCands, chHandlers, pcHandlers,
                      sent, loggedIn, nEvents>>
  ELSE /\ NextPc <= MaxPc
       /\ AllocUpdates(c, NextPc)
       /\ AfterCreate(k, [rec EXCEPT !.pc = NextPc,
                                     !.buffered = BufferedCandidates(c)])
       /\ UNCHANGED <<messageCallbacks, pendingSignalingData,
                      iceCandidateCallbacks, pcClosed, pcSignaling,
                      pcConnState, pcIceState, pcCandidates, pcLocalCands,
                      sent, loggedIn, nEvents>>

\* createConnection after "await this.closeConnection(contactId)"
CreateResume(k) ==
  LET rec == calls[k] IN
  /\ rec.pos = "cc_wait"
  /\ NextPc <= MaxPc
  /\ AllocUpdates(rec.c, NextPc)
  /\ AfterCreate(k, [rec EXCEPT !.pc = NextPc,
                                !.buffered = BufferedCandidates(rec.c)])
  /\ UNCHANGED <<messageCallbacks, pendingSignalingData,
                 iceCandidateCallbacks, pcClosed, pcSignaling,
                 pcConnState, pcIceState, pcCandidates, pcLocalCands, sent,
                 connData, loggedIn, nEvents>>
  /\ UNCHANGED <<nApi, sideVars>>

CreateConnection(c) ==
  /\ nApi < MaxApi
  /\ nApi' = nApi + 1
  /\ FreeSlots # {}
  /\ CreateStart(FreeSlot, DirectCall("createConnection", c, "none"))
  /\ UNCHANGED <<connData, sideVars>>


\* a write to the connection-data store: it may fail, and the stored array
\* is capped at MaxPending entries
StorageWrite(c, arr, ok) ==
  /\ ok => Len(arr) <= MaxPending
  /\ connData' = IF ok THEN [connData EXCEPT ![c] = arr] ELSE connData

\* ------------------------------------------------ sendOffer
SendOffer(c) ==
  /\ nApi < MaxApi
  /\ nApi' = nApi + 1
  /\ FreeSlots # {}
  /\ CreateStart(FreeSlot, DirectCall("sendOffer", c, "none"))
  /\ UNCHANGED <<connData, sideVars>>

\* sendOffer after createOffer and setLocalDescription: storeSignalingData
SendOfferDescribed(k) ==
  LET rec == calls[k]
      t == rec.pc
      c == rec.c IN
  /\ ~MicrotaskPending
  /\ rec.pos = "so_desc"
  /\ IF pcClosed[t]
     THEN /\ Finish(k, rec, "InvalidState")
          /\ UNCHANGED <<pcSignaling, pendingSignalingData>>
     ELSE /\ Len(pendingSignalingData[c]) < MaxPending
          /\ pcSignaling' = [pcSignaling EXCEPT ![t] = "have-local-offer"]
          /\ pendingSignalingData' =
               PendingAfterStore(c, SigData("offer", c, "localOffer"))
          /\ IF loggedIn THEN Await(k, rec, "so_save")
             ELSE Finish(k, rec, "ok")
  /\ UNCHANGED <<connections, messageCallbacks, iceCandidateCallbacks,
                 connectionStates, iceStates, pcContact, pcClosed,
                 pcConnState, pcIceState, pcCandidates, pcLocalCands, chState,
                 chHandlers, pcHandlers, sent, connData, loggedIn, nEvents>>
  /\ UNCHANGED <<nApi, sideVars>>

\* sendOffer after saveConnectionData(contactId, user.id, [signalingData])
SendOfferSaved(k) ==
  LET rec == calls[k]
      c == rec.c IN
  /\ ~MicrotaskPending
  /\ rec.pos = "so_save"
  /\ \E ok \in BOOLEAN :
       StorageWrite(c, <<SigData("offer", c, "localOffer")>>, ok)
  /\ Finish(k, rec, "ok")
  /\ UNCHANGED <<connections, messageCallbacks, pendingSignalingData,
                 iceCandidateCallbacks, connectionStates, iceStates, pcVars,
                 chState, chHandlers, pcHandlers, sent, loggedIn, nEvents>>
  /\ UNCHANGED <<nApi, sideVars>>

\* ------------------------------------------------ handleOffer
HandleOfferStart(k, rec) == CreateStart(k, rec)

HandleOffer(offer, c) ==
  /\ nApi < MaxApi
  /\ nApi' = nApi + 1
  /\ FreeSlots # {}
  /\ HandleOfferStart(FreeSlot, DirectCall("handleOffer", c, offer))
  /\ UNCHANGED <<connData, sideVars>>

\* handleOffer after setRemoteDescription(offer)
HandleOfferRemoteSet(k) ==
  LET rec == calls[k]
      t == rec.pc IN
  /\ ~MicrotaskPending
  /\ rec.pos = "ho_remote"
  /\ IF pcClosed[t]
     THEN /\ Finish(k, rec, "InvalidState")
          /\ UNCHANGED pcSignaling
     ELSE IF rec.data = "none"
     THEN \* setRemoteDescription(undefined) rejects with a TypeError
          /\ Finish(k, rec, "TypeError")
          /\ UNCHANGED pcSignaling
     ELSE /\ pcSignaling' = [pcSignaling EXCEPT ![t] = "have-remote-offer"]
          /\ Await(k, rec, "ho_answer")
  /\ UNCHANGED <<connections, messageCallbacks, pendingSignalingData,
                 iceCandidateCallbacks, connectionStates, iceStates,
                 pcContact, pcClosed, pcConnState, pcIceState,
                 pcCandidates, pcLocalCands, chState, chHandlers, pcHandlers,
                 sent, connData, loggedIn, nEvents>>
  /\ UNCHANGED <<nApi, sideVars>>

\* handleOffer after createAnswer and setLocalDescription: storeSignalingData
HandleOfferAnswered(k) ==
  LET rec == calls[k]
      t == rec.pc
      c == rec.c IN
  /\ ~MicrotaskPending
  /\ rec.pos = "ho_answer"
  /\ IF pcClosed[t]
     THEN /\ Finish(k, rec, "InvalidState")
          /\ UNCHANGED <<pcSignaling, pendingSignalingData>>
     ELSE /\ Len(pendingSignalingData[c]) < MaxPending
          /\ pcSignaling' = [pcSignaling EXCEPT ![t] = "negotiated"]
          /\ pendingSignalingData' =
               PendingAfterStore(c, SigData("answer", c, "localAnswer"))
          /\ IF loggedIn THEN Await(k, rec, "ho_save")
             ELSE Finish(k, rec, "ok")
  /\ UNCHANGED <<connections, messageCallbacks, iceCandidateCallbacks,
                 connectionStates, iceStates, pcContact, pcClosed,
                 pcConnState, pcIceState, pcCandidates, pcLocalCands, chState,
                 chHandlers, pcHandlers, sent, connData, loggedIn, nEvents>>
  /\ UNCHANGED <<nApi, sideVars>>

\* handleOffer after getConnectionData and saveConnectionData
HandleOfferSaved(k) ==
  LET rec == calls[k]
      c == rec.c IN
  /\ ~MicrotaskPending
  /\ rec.pos = "ho_save"
  /\ \E ok \in BOOLEAN :
       StorageWrite(c, Append(connData[c], SigData("answer", c, "localAnswer")), ok)
  /\ Finish(k, rec, "ok")
  /\ UNCHANGED <<connections, messageCallbacks, pendingSignalingData,
                 iceCandidateCallbacks, connectionStates, iceStates, pcVars,
                 chState, chHandlers, pcHandlers, sent, loggedIn, nEvents>>
  /\ UNCHANGED <<nApi, sideVars>>

\* ------------------------------------------------ handleAnswer
\* handleAnswer as it would be if it stored the answer in the pending buffer
\* (as handleIceCandidate does with a candidate) before it looks for the
\* connection
HandleAnswerStoresFirst(k, rec) ==
  LET c == rec.c IN
  /\ pendingSignalingData' = PendingAfterStore(c, SigData("answer", c, rec.data))
  /\ IF ~HasConnection(c)
     THEN Finish(k, rec, "NoConnection")
     ELSE Await(k, [rec EXCEPT !.pc = connections[c].peerConnection], "ha_remote")
  /\ UNCHANGED <<connections, messageCallbacks,
                 iceCandidateCallbacks, connectionStates, iceStates, pcVars,
                 chState, chHandlers, pcHandlers, sent, loggedIn, nEvents>>

\* handleAnswer up to "await setRemoteDescription": without a connection it
\* throws before anything else
HandleAnswerStart(k, rec) ==
  LET c == rec.c IN
  /\ IF ~HasConnection(c)
     THEN Finish(k, rec, "NoConnection")
     ELSE Await(k, [rec EXCEPT !.pc = connections[c].peerConnection], "ha_remote")
  /\ UNCHANGED <<connections, messageCallbacks, pendingSignalingData,
                 iceCandidateCallbacks, connectionStates, iceStates, pcVars,
                 chState, chHandlers, pcHandlers, sent, loggedIn, nEvents>>

HandleAnswer(answer, c) ==
  /\ nApi < MaxApi
  /\ nApi' = nApi + 1
  /\ FreeSlots # {}
  /\ HandleAnswerStart(FreeSlot, DirectCall("handleAnswer", c, answer))
  /\ UNCHANGED <<connData, sideVars>>

\* handleAnswer after setRemoteDescription(answer), which the pc accepts
\* only in the state have-local-offer
HandleAnswerRemoteSet(k) ==
  LET rec == calls[k]
      t == rec.pc IN
  /\ ~MicrotaskPending
  /\ rec.pos = "ha_remote"
  /\ IF pcClosed[t] \/ pcSignaling[t] # "have-local-offer"
     THEN /\ Finish(k, rec, "InvalidState")
          /\ UNCHANGED pcSignaling
     ELSE /\ pcSignaling' = [pcSignaling EXCEPT ![t] = "negotiated"]
          /\ IF loggedIn THEN Await(k, rec, "ha_save")
             ELSE Finish(k, rec, "ok")
  /\ UNCHANGED <<connections, messageCallbacks, pendingSignalingData,
                 iceCandidateCallbacks, connectionStates, iceStates,
                 pcContact, pcClosed, pcConnState, pcIceState,
                 pcCandidates, pcLocalCands, chState, chHandlers, pcHandlers,
                 sent, connData, loggedIn, nEvents>>
  /\ UNCHANGED <<nApi, sideVars>>

\* handleAnswer after getConnectionData and saveConnectionData
HandleAnswerSaved(k) ==
  LET rec == calls[k]
      c == rec.c IN
  /\ ~MicrotaskPending
  /\ rec.pos = "ha_save"
  /\ \E ok \in BOOLEAN :
       StorageWrite(c, Append(connData[c], SigData("answer", c, rec.data)), ok)
  /\ Finish(k, rec, "ok")
  /\ UNCHANGED <<connections, messageCallbacks, pendingSignalingData,
                 iceCandidateCallbacks, connectionStates, iceStates, pcVars,
                 chState, chHandlers, pcHandlers, sent, loggedIn, nEvents>>
  /\ UNCHANGED <<nApi, sideVars>>


\* ------------------------------------------------ handleIceCandidate
\* "Process immediately if connection exists": the lookup that follows the
\* storage block of handleIceCandidate
IceLookup(k, rec) ==
  IF HasConnection(rec.c)
  THEN Await(k, [rec EXCEPT !.pc = connections[rec.c].peerConnection], "hic_add")
  ELSE Finish(k, rec, "ok")

\* handleIceCandidate up to its first await
HandleIceCandidateStart(k, rec) ==
  LET c == rec.c IN
  /\ Len(pendingSignalingData[c]) < MaxPending
  /\ pendingSignalingData' =
       PendingAfterStore(c, SigData("ice-candidate", c, rec.data))
  /\ IF loggedIn THEN Await(k, rec, "hic_save") ELSE IceLookup(k, rec)
  /\ UNCHANGED <<connections, messageCallbacks, iceCandidateCallbacks,
                 connectionStates, iceStates, pcVars, chState, chHandlers,
                 pcHandlers, sent, loggedIn, nEvents>>

HandleIceCandidate(cand, c) ==
  /\ nApi < MaxApi
  /\ nApi' = nApi + 1
  /\ FreeSlots # {}
  /\ HandleIceCandidateStart(FreeSlot, DirectCall("handleIceCandidate", c, cand))
  /\ UNCHANGED <<connData, sideVars>>

\* handleIceCandidate after addIceCandidateToConnectionData
HandleIceCandidateSaved(k) ==
  LET rec == calls[k]
      c == rec.c IN
  /\ ~MicrotaskPending
  /\ rec.pos = "hic_save"
  /\ \E ok \in BOOLEAN :
       StorageWrite(c, Append(connData[c], SigData("ice-candidate", c, rec.data)), ok)
  /\ IceLookup(k, rec)
  /\ UNCHANGED <<connections, messageCallbacks, pendingSignalingData,
                 iceCandidateCallbacks, connectionStates, iceStates, pcVars,
                 chState, chHandlers, pcHandlers, sent, loggedIn, nEvents>>
  /\ UNCHANGED <<nApi, sideVars>>

\* handleIceCandidate after addIceCandidate, which the pc rejects when it is
\* closed or has no remote description; the rejection is caught and logged
HandleIceCandidateAdded(k) ==
  LET rec == calls[k]
      t == rec.pc IN
  /\ ~MicrotaskPending
  /\ rec.pos = "hic_add"
  /\ Len(pcCandidates[t]) < MaxPending
  /\ pcCandidates' =
       IF pcClosed[t] \/ ~HasRemote(t) THEN pcCandidates
       ELSE [pcCandidates EXCEPT ![t] = Append(@, rec.data)]
  /\ Finish(k, rec, "ok")
  /\ UNCHANGED <<connections, messageCallbacks, pendingSignalingData,
                 iceCandidateCallbacks, connectionStates, iceStates,
                 pcContact, pcClosed, pcSignaling, pcConnState,
                 pcIceState, pcLocalCands, chState, chHandlers, pcHandlers,
                 sent, connData, loggedIn, nEvents>>
  /\ UNCHANGED <<nApi, sideVars>>

\* ------------------------------------------------ handleIceCandidateGeneration
\* "Notify callback if registered"
IceNotify(k, rec) ==
  Finish(k, rec, IF iceCandidateCallbacks[rec.c] = "none" THEN "ok"
                 ELSE "notified")

\* pc.onicecandidate with a candidate -> handleIceCandidateGeneration up to
\* its first await
PcIceCandidate(t) ==
  LET c == pcContact[t]
      rec == [DirectCall("handleIceCandidateGeneration", c, "localCand")
              EXCEPT !.pc = t] IN
  /\ ~MicrotaskPending
  /\ t \in pcHandlers
  /\ ~pcClosed[t]
  /\ HasLocal(t)
  /\ pcLocalCands[t] < MaxLocalCand
  /\ FreeSlots # {}
  /\ Len(pendingSignalingData[c]) < MaxPending
  /\ pcLocalCands' = [pcLocalCands EXCEPT ![t] = @ + 1]
  /\ pendingSignalingData' =
       PendingAfterStore(c, SigData("ice-candidate", c, "localCand"))
  /\ IF loggedIn THEN Await(FreeSlot, rec, "ig_save")
     ELSE IceNotify(FreeSlot, rec)
  /\ UNCHANGED <<connections, messageCallbacks, iceCandidateCallbacks,
                 connectionStates, iceStates, pcContact, pcClosed, pcSignaling,
                 pcConnState, pcIceState, pcCandidates, chState,
                 chHandlers, pcHandlers, sent, connData, loggedIn, nEvents>>
  /\ UNCHANGED <<nApi, sideVars>>

\* handleIceCandidateGeneration after addIceCandidateToConnectionData
IceGenerationSaved(k) ==
  LET rec == calls[k]
      c == rec.c IN
  /\ ~MicrotaskPending
  /\ rec.pos = "ig_save"
  /\ \E ok \in BOOLEAN :
       StorageWrite(c, Append(connData[c], SigData("ice-candidate", c, rec.data)), ok)
  /\ IceNotify(k, rec)
  /\ UNCHANGED <<connections, messageCallbacks, pendingSignalingData,
                 iceCandidateCallbacks, connectionStates, iceStates, pcVars,
                 chState, chHandlers, pcHandlers, sent, loggedIn, nEvents>>
  /\ UNCHANGED <<nApi, sideVars>>

\* ------------------------------------------------ importSignalingData
\* processSignalingData: the entry at the head of the array is handed to the
\* operation of its type
ProcessSignalingData(k, rec) ==
  LET e == Head(rec.rest)
      inner == [rec EXCEPT !.c = e.contactId, !.data = e.data,
                           !.rest = Tail(rec.rest),
                           !.dispatched = rec.dispatched + 1,
                           !.pc = 0, !.old = 0]
  IN CASE e.type = "offer" ->
            HandleOfferStart(k, [inner EXCEPT !.op = "handleOffer"])
       [] e.type = "answer" ->
            HandleAnswerStart(k, [inner EXCEPT !.op = "handleAnswer"])
       [] e.type = "ice-candidate" ->
            HandleIceCandidateStart(k, [inner EXCEPT !.op = "handleIceCandidate"])
       [] OTHER ->
            \* the switch has no default: an entry of no known type is
            \* passed over
            /\ Finish(k, [inner EXCEPT !.op = "processSignalingData"], "ok")
            /\ UNCHANGED <<connections, messageCallbacks,
                           pendingSignalingData, iceCandidateCallbacks,
                           connectionStates, iceStates, pcVars, chState,
                           chHandlers, pcHandlers, sent, loggedIn, nEvents>>

RemoteEntries(c) ==
  {SigData("offer", c, "remoteOffer"), SigData("answer", c, "remoteAnswer")}
  \cup {SigData("ice-candidate", c, rc) : rc \in RemoteCands}

\* importSignalingData up to its first await, for a text that JSON.parse
\* reads as the array batch; cid = "none" is the call without contactId
ImportSignalingData(batch, cid) ==
  LET rec == [IdleCall EXCEPT !.op = "importSignalingData", !.c = cid,
                              !.top = "import", !.rest = batch,
                              !.total = Len(batch)] IN
  /\ nApi < MaxApi
  /\ nApi' = nApi + 1
  /\ FreeSlots # {}
  /\ IF cid # "none" /\ loggedIn
     THEN /\ Await(FreeSlot, rec, "imp_save")
          /\ UNCHANGED <<connections, messageCallbacks, pendingSignalingData,
                         iceCandidateCallbacks, connectionStates, iceStates,
                         pcVars, chState, chHandlers, pcHandlers, sent,
                         loggedIn, nEvents>>
     ELSE ProcessSignalingData(FreeSlot, rec)
  /\ UNCHANGED <<connData, sideVars>>

\* JSON.parse throws: the catch rethrows "Invalid signaling data format"
ImportUnparsable ==
  /\ nApi < MaxApi
  /\ nApi' = nApi + 1
  /\ lastOp' = Op("importSignalingData", "none", "InvalidFormat")
  /\ UNCHANGED <<connections, messageCallbacks, pendingSignalingData,
                 iceCandidateCallbacks, connectionStates, iceStates, pcVars,
                 chState, chHandlers, pcHandlers, sent, connData, loggedIn, nEvents,
                 calls>>
  /\ UNCHANGED sideVars

\* importSignalingData after saveConnectionData(contactId, user.id, dataArray)
ImportSaved(k) ==
  LET rec == calls[k] IN
  /\ ~MicrotaskPending
  /\ rec.pos = "imp_save"
  /\ \E ok \in BOOLEAN :
       /\ StorageWrite(rec.c, rec.rest, ok)
       /\ IF ok THEN ProcessSignalingData(k, rec)
          ELSE /\ Finish(k, rec, "StorageError")
               /\ UNCHANGED <<connections, messageCallbacks,
                              pendingSignalingData, iceCandidateCallbacks,
                              connectionStates, iceStates, pcVars, chState,
                              chHandlers, pcHandlers, sent, loggedIn, nEvents>>
  /\ UNCHANGED <<nApi, sideVars>>

\* the loop of importSignalingData after "await processSignalingData"
ImportLoop(k) ==
  /\ calls[k].pos = "loop"
  /\ ProcessSignalingData(k, calls[k])
  /\ UNCHANGED <<connData, nApi, sideVars>>

\* ------------------------------------------------ next-state relations
\* The workloads.  Each specification runs the service for one contact under
\* the API calls named in it, with the continuations of the calls it starts
\* and the events of the objects it makes.
One == {"alice"}

CreateApi ==
  \/ \E c \in One : CreateConnection(c)
  \/ \E c \in One : CloseConnection(c)
  \/ \E c \in One : SendOffer(c)
  \/ \E c \in One : HandleOffer("remoteOffer", c)
  \/ \E c \in One : HandleAnswer("remoteAnswer", c)

OfferAnswerSteps ==
  \/ \E k \in Slots : CreateResume(k)
  \/ \E k \in Slots : SendOfferDescribed(k)
  \/ \E k \in Slots : SendOfferSaved(k)
  \/ \E k \in Slots : HandleOfferRemoteSet(k)
  \/ \E k \in Slots : HandleOfferAnswered(k)
  \/ \E k \in Slots : HandleOfferSaved(k)
  \/ \E k \in Slots : HandleAnswerRemoteSet(k)
  \/ \E k \in Slots : HandleAnswerSaved(k)

ChannelEvent ==
  \/ \E ch \in ChIds : ChannelOpen(ch)
  \/ \E ch \in ChIds : ChannelClose(ch)
  \/ \E ch \in ChIds : ChannelError(ch)
  \/ \E t \in Pcs : PcDataChannel(t)

TransportEvent ==
  \/ \E t \in Pcs, s \in ConnStates : PcConnectionStateChange(t, s)
  \/ \E t \in Pcs, s \in {"checking", "connected", "disconnected", "failed"} :
        PcIceStateChange(t, s)

\* sessions: creation, negotiation, channel and transport events, sending,
\* closing
Next ==
  \/ CreateApi
  \/ \E c \in One, m \in Msgs : SendMessage(m, c)
  \/ OfferAnswerSteps
  \/ ChannelEvent
  \/ TransportEvent

Spec == Init /\ [][Next]_vars

\* A caller that awaits each call before it makes the next one: the call
\* starts only when no call is in flight.
Quiet == \A k \in Slots : calls[k].pos = "idle"

AwaitedCreateConnection(c) == Quiet /\ CreateConnection(c)

AwaitedSendOffer(c) == Quiet /\ SendOffer(c)

AwaitedHandleOffer(offer, c) == Quiet /\ HandleOffer(offer, c)

AwaitedHandleAnswer(answer, c) == Quiet /\ HandleAnswer(answer, c)

AwaitedHandleIceCandidate(cand, c) == Quiet /\ HandleIceCandidate(cand, c)

AwaitedImportSignalingData(batch, cid) == Quiet /\ ImportSignalingData(batch, cid)

AwaitedImportUnparsable == Quiet /\ ImportUnparsable

AwaitedApi ==
  \/ \E c \in One : AwaitedCreateConnection(c)
  \/ \E c \in One : AwaitedSendOffer(c)
  \/ \E c \in One : AwaitedHandleOffer("remoteOffer", c)
  \/ \E c \in One : AwaitedHandleAnswer("remoteAnswer", c)
  \/ \E c \in One : CloseConnection(c)

\* signaling: candidates and imported arrays next to offers and answers,
\* each call awaited
ImportBatches ==
  UNION {UNION {[1..n -> RemoteEntries(c)] : n \in 1..MaxBatch} : c \in One}

NextSignaling ==
  \/ AwaitedApi
  \/ \E c \in One, rc \in RemoteCands : AwaitedHandleIceCandidate(rc, c)
  \/ \E b \in ImportBatches, cid \in One \cup {"none"} :
        AwaitedImportSignalingData(b, cid)
  \/ AwaitedImportUnparsable
  \/ OfferAnswerSteps
  \/ \E k \in Slots : HandleIceCandidateSaved(k)
  \/ \E k \in Slots : HandleIceCandidateAdded(k)
  \/ \E k \in Slots : ImportSaved(k)
  \/ \E k \in Slots : ImportLoop(k)
  \/ \E t \in Pcs : PcIceCandidate(t)
  \/ \E k \in Slots : IceGenerationSaved(k)

SpecSignaling == Init /\ [][NextSignaling]_vars

\* callbacks: registration and removal of the receive and candidate
\* callbacks around the life of a session, each call awaited
NextCallbacks ==
  \/ AwaitedApi
  \/ \E c \in One, cb \in Callbacks : OnMessage(c, cb)
  \/ \E c \in One, cb \in Callbacks : Unsubscribe(c, cb)
  \/ \E c \in One, cb \in Callbacks : OnIceCandidateGenerated(c, cb)
  \/ \E c \in One : IceUnsubscribe(c)
  \/ OfferAnswerSteps
  \/ ChannelEvent
  \/ \E ch \in ChIds, m \in Msgs : ChannelMessage(ch, m)
  \/ \E t \in Pcs : PcIceCandidate(t)
  \/ \E k \in Slots : IceGenerationSaved(k)

SpecCallbacks == Init /\ [][NextCallbacks]_vars


\* ------------------------------------------------ export and import text
\* property names and type values of SignalingData, as characters
KeyType == <<"t", "y", "p", "e">>
KeyContactId == <<"c", "o", "n", "t", "a", "c", "t", "I", "d">>
KeyData == <<"d", "a", "t", "a">>
KeyTimestamp == <<"t", "i", "m", "e", "s", "t", "a", "m", "p">>
KeySdp == <<"s", "d", "p">>
KeyCandidate == <<"c", "a", "n", "d", "i", "d", "a", "t", "e">>
KeySdpMid == <<"s", "d", "p", "M", "i", "d">>
KeySdpMLineIndex == <<"s", "d", "p", "M", "L", "i", "n", "e", "I", "n", "d", "e", "x">>
KeyUsernameFragment == <<"u", "s", "e", "r", "n", "a", "m", "e", "F", "r", "a", "g", "m", "e", "n", "t">>
TypeOffer == <<"o", "f", "f", "e", "r">>
TypeAnswer == <<"a", "n", "s", "w", "e", "r">>
TypeIceCandidate == <<"i", "c", "e", "-", "c", "a", "n", "d", "i", "d", "a", "t", "e">>

\* a SignalingData object, its properties in the order of the object
\* literals that make it
SignalingDataObject(type, contactId, data, timestamp) ==
  JObj(<< <<KeyType, JStr(type)>>, <<KeyContactId, JStr(contactId)>>,
          <<KeyData, data>>, <<KeyTimestamp, JNum(timestamp)>> >>)

\* RTCSessionDescriptionInit
SessionDescription(type, sdp) ==
  JObj(<< <<KeyType, JStr(type)>>, <<KeySdp, JStr(sdp)>> >>)

\* RTCIceCandidateInit, as RTCIceCandidate.toJSON() gives it
IceCandidateInit(candidate) ==
  JObj(<< <<KeyCandidate, JStr(candidate)>>, <<KeySdpMid, JStr(<<"0">>)>>,
          <<KeySdpMLineIndex, JNum(0)>>, <<KeyUsernameFragment, JNull>> >>)

\* the strings of the model: every string of at most MaxStrLen characters
\* over a quote, a backslash, a line break and a letter
StrAlphabet == {"\"", "\\", "\n", "n"}
Strs == UNION {[1..n -> StrAlphabet] : n \in 0..MaxStrLen}

\* a payload text around a string of the model: a backslash before the
\* string, and a letter n and a line break after it
Payload(str) == <<"\\">> \o str \o <<"n", "\n">>

\* the SignalingData objects of the model: an offer, an answer or a
\* candidate whose contactId is a string of the model and whose payload
\* text is made around it
CodecMessages ==
  {SignalingDataObject(TypeOffer, str,
                       SessionDescription(TypeOffer, Payload(str)), 0)
     : str \in Strs}
  \cup {SignalingDataObject(TypeAnswer, str,
                            SessionDescription(TypeAnswer, Payload(str)),
                            MaxStamp)
          : str \in Strs}
  \cup {SignalingDataObject(TypeIceCandidate, str,
                            IceCandidateInit(Payload(str)), 10 * MaxStamp)
          : str \in Strs}

\* the non-empty arrays of at most MaxMsgs SignalingData objects
CodecInputs == UNION {{JArr(q) : q \in [1..n -> CodecMessages]} : n \in 1..MaxMsgs}

InitCodec ==
  /\ connections = [c \in Contacts |-> NoConn]
  /\ messageCallbacks = [c \in Contacts |-> {}]
  /\ pendingSignalingData = [c \in Contacts |-> <<>>]
  /\ iceCandidateCallbacks = [c \in Contacts |-> "none"]
  /\ connectionStates = [c \in Contacts |-> "absent"]
  /\ iceStates = [c \in Contacts |-> "absent"]
  /\ pcContact = [t \in Pcs |-> "none"]
  /\ pcClosed = [t \in Pcs |-> FALSE]
  /\ pcSignaling = [t \in Pcs |-> "new"]
  /\ pcConnState = [t \in Pcs |-> "new"]
  /\ pcIceState = [t \in Pcs |-> "new"]
  /\ pcCandidates = [t \in Pcs |-> <<>>]
  /\ pcLocalCands = [t \in Pcs |-> 0]
  /\ chState = [ch \in ChIds |-> "absent"]
  /\ chHandlers = {}
  /\ pcHandlers = {}
  /\ sent = [ch \in ChIds |-> <<>>]
  /\ connData = [c \in Contacts |-> <<>>]
  /\ loggedIn = FALSE
  /\ nEvents = 0
  /\ nApi = 0
  /\ calls = [k \in Slots |-> IdleCall]
  /\ lastOp = NoOp
  /\ codecIn \in CodecInputs
  /\ codecText = <<>>
  /\ codecOut = JNone
  /\ cryptoIn = NoInput
  /\ cryptoEnv = NoEnvelope
  /\ cryptoOut = NoResult
  /\ MessageInit

\* exportSignalingData for a contact whose pending array is codecIn
ExportSignalingData ==
  /\ codecText = <<>>
  /\ codecText' = JSONstringify(codecIn)
  /\ UNCHANGED <<mgrVars, codecIn, codecOut, cryptoVars, msgVars>>

\* the first statement of importSignalingData, on the exported text
ParseSignalingData ==
  /\ codecText # <<>>
  /\ codecOut = JNone
  /\ codecOut' = JSONparse(codecText)
  /\ UNCHANGED <<mgrVars, codecIn, codecText, cryptoVars, msgVars>>

NextCodec ==
  \/ ExportSignalingData
  \/ ParseSignalingData

SpecCodec == InitCodec /\ [][NextCodec]_vars

\* ------------------------------------------------ claims
\* the transports made for contact c that have not been closed
Live(c) == {t \in Allocated : pcContact[t] = c /\ ~pcClosed[t]}

\* C1: when the second of two createConnection calls made in a row for a
\* contact has returned, the registry holds the session the second call
\* made, the transport and the channel of the first session are closed, and
\* neither a handler of the first session nor a pending buffer of the
\* contact remains registered.
C1_SecondCreateReleasesFirst ==
  \A c \in Contacts :
    ( /\ lastOp.op = "createConnection"
      /\ lastOp.c = c
      /\ lastOp.result = "ok"
      /\ nApi = 2
      /\ lastOp.old = 1
      /\ lastOp.pc = 2 )
    => /\ connections[c].peerConnection = 2
       /\ Live(c) = {2}
       /\ chState[OwnCh(1)] \in {"closing", "closed"}
       /\ 1 \notin pcHandlers
       /\ OwnCh(1) \notin chHandlers
       /\ InCh(1) \notin chHandlers
       /\ pendingSignalingData[c] = <<>>

\* C2: in every state, whatever calls that create a session for a contact
\* overlap, at most one transport made for the contact is not closed, and
\* every transport that is not closed is the one the registry holds.
C2_CreateCloseSerialized ==
  \A c \in Contacts :
    /\ Cardinality(Live(c)) <= 1
    /\ \A t \in Live(c) : connections[c].peerConnection = t

\* C3: a step that makes the connection state of a contact 'connected' is
\* the open event of a channel of the session the registry holds; no
\* connectionstatechange event of the transport does it.
C3_ConnectedOnlyByChannelOpen ==
  [][\A c \in Contacts :
       (GetConnectionState(c)' = "connected" /\ GetConnectionState(c) # "connected")
       => /\ lastOp'.op = "channel.onopen"
          /\ lastOp'.pc = connections'[c].peerConnection]_vars

\* C4: while the registry holds the same session for a contact, a
\* connection state of 'failed' or 'disconnected' is never followed by
\* 'connecting' or 'connected'.
C4_TerminalStatesStay ==
  [][\A c \in Contacts :
       ( /\ connectionStates[c] \in Terminal
         /\ HasConnection(c)
         /\ connections'[c].peerConnection = connections[c].peerConnection )
       => connectionStates'[c] \notin {"connecting", "connected"}]_vars

\* C5: a sendMessage call for a contact whose connection state is not
\* 'connected' (a contact without a session included) fails and appends
\* nothing to what has been written on any channel.
C5_SendRequiresConnected ==
  [][\A c \in Contacts :
       ( /\ lastOp'.op = "sendMessage"
         /\ lastOp'.c = c
         /\ nApi' = nApi + 1
         /\ GetConnectionState(c) # "connected" )
       => /\ lastOp'.result \in {"NoConnection", "ChannelNotOpen"}
          /\ sent' = sent]_vars

\* C6: after closeConnection has run for a contact, in whatever state the
\* negotiation was, nothing of the contact is left: no registry entry, no
\* receive callback, no candidate-generated callback, no handler on a
\* channel or a transport made for the contact, no pending buffer and no
\* entry in the two state maps.
C6_CloseLeavesNothing ==
  \A c \in Contacts :
    (lastOp.op = "closeConnection" /\ lastOp.c = c)
    => /\ ~HasConnection(c)
       /\ messageCallbacks[c] = {}
       /\ iceCandidateCallbacks[c] = "none"
       /\ pendingSignalingData[c] = <<>>
       /\ connectionStates[c] = "absent"
       /\ iceStates[c] = "absent"
       /\ \A t \in Allocated :
            pcContact[t] = c
            => /\ t \notin pcHandlers
               /\ OwnCh(t) \notin chHandlers
               /\ InCh(t) \notin chHandlers

\* C7: when importSignalingData has ended after it dispatched at least one
\* entry of the array, it has dispatched every entry of the array: an entry
\* whose operation fails does not keep the later entries from being
\* dispatched.
C7_ImportDispatchesEveryEntry ==
  ( /\ lastOp.op = "importSignalingData"
    /\ lastOp.result \in {"ok", "InvalidFormat"}
    /\ lastOp.dispatched > 0 )
  => lastOp.dispatched = lastOp.total

\* C8: when handleOffer has made a session for a contact and has ended, the
\* remote candidates that were in the pending buffer of the contact when the
\* session was made have been added to the transport of the session, in the
\* order of the buffer and before any other candidate.
C8_BufferedCandidatesReplayed ==
  ( /\ lastOp.op = "handleOffer"
    /\ lastOp.result = "ok"
    /\ lastOp.pc # 0 )
  => /\ Len(lastOp.buffered) <= Len(pcCandidates[lastOp.pc])
     /\ \A i \in 1..Len(lastOp.buffered) :
          pcCandidates[lastOp.pc][i] = lastOp.buffered[i]

\* C9: a handleAnswer call for a contact without a session ends with the
\* no-connection error, and the registry, the state maps, the pending
\* buffers, the stored connection data, the callbacks, every transport and
\* channel and the other calls in flight are as they were before the call.
C9_AnswerWithoutSessionChangesNothing ==
  [][\A c \in Contacts :
       ( /\ nApi' = nApi + 1
         /\ lastOp'.op = "handleAnswer"
         /\ lastOp'.c = c
         /\ ~HasConnection(c) )
       => /\ lastOp'.result = "NoConnection"
          /\ UNCHANGED <<connections, connectionStates, iceStates,
                         pendingSignalingData, connData, messageCallbacks,
                         iceCandidateCallbacks, pcVars, chState, chHandlers,
                         pcHandlers, sent, calls>>]_vars

\* C9 happens: handleAnswer has failed for a contact whose earlier session
\* was closed while another call is in flight
C9_Witness ==
  /\ lastOp.op = "handleAnswer"
  /\ lastOp.result = "NoConnection"
  /\ ~HasConnection(lastOp.c)
  /\ \E t \in Allocated : pcContact[t] = lastOp.c /\ pcClosed[t]
  /\ \E k \in Slots : calls[k].op # "idle"

\* C10: for every non-empty array of SignalingData objects, the value that
\* JSON.parse reads from the text exportSignalingData writes for the array
\* is the array: the same objects with the same property values, in the
\* same order.
C10_ExportImportRoundTrip ==
  codecOut # JNone => codecOut = codecIn

\* C10 happens: an array of two different objects, one of them with a quote
\* or a backslash in its strings, has been written and read back
C10_Witness ==
  /\ codecOut # JNone
  /\ codecOut.k = "array"
  /\ Len(codecOut.m) = 2
  /\ codecOut.m[1] # codecOut.m[2]
  /\ \E i \in 1..Len(codecIn.m[1][2].m[2][2].s) :
       codecIn.m[1][2].m[2][2].s[i] \in {"\"", "\\"}

\* ------------------------------------------------ malformed imports
\* Entries that lack a required field: one without its type and an offer
\* without its data.
MalformedEntries(c) ==
  {SigData("none", c, "remoteOffer"), SigData("offer", c, "none")}

\* arrays that hold at least one such entry
MalformedBatches ==
  UNION {{b \in [1..n -> RemoteEntries(c) \cup MalformedEntries(c)] :
            \E i \in 1..n : b[i] \in MalformedEntries(c)} :
         n \in 1..MaxBatch, c \in One}

\* imports of texts that do not parse and of arrays with a malformed entry,
\* next to the offers that give the entries a session to act on
NextMalformed ==
  \/ \E c \in One : AwaitedSendOffer(c)
  \/ \E b \in MalformedBatches, cid \in One \cup {"none"} :
        AwaitedImportSignalingData(b, cid)
  \/ AwaitedImportUnparsable
  \/ OfferAnswerSteps
  \/ \E k \in Slots : HandleIceCandidateSaved(k)
  \/ \E k \in Slots : HandleIceCandidateAdded(k)
  \/ \E k \in Slots : ImportSaved(k)
  \/ \E k \in Slots : ImportLoop(k)

SpecMalformed == Init /\ [][NextMalformed]_vars

\* a step of importSignalingData: its start, its continuations and those of
\* the operations its loop calls
ImportStep ==
  \/ \E k \in Slots : calls[k].top = "import" \/ calls'[k].top = "import"
  \/ nApi' # nApi /\ lastOp'.op = "importSignalingData"

\* C11: an import of a text that does not parse, or of an array with an
\* entry that lacks its type or its data, ends with the malformed-signaling
\* error and changes no session, no pending buffer, no transport and no
\* stored connection data.
C11_MalformedImportChangesNothing ==
  [][ImportStep =>
        /\ UNCHANGED <<connections, connectionStates, iceStates,
                       pendingSignalingData, connData, pcVars, chState>>
        /\ (lastOp'.op = "importSignalingData" /\ lastOp'.result # "pending")
              => lastOp'.result = "InvalidFormat"]_vars

\* ------------------------------------------------ text, bytes and base64
\* A string is a sequence of UTF-16 code units and a buffer a sequence of
\* bytes, both as numbers.
MaxTextLen == 2
MaxFileLen == 2
AesKeyLen == 1
IvLen == 1

IsHighSurrogate(u) == u >= 55296 /\ u <= 56319
IsLowSurrogate(u) == u >= 56320 /\ u <= 57343

\* the UTF-8 bytes of a code point
EncodeCodePoint(cp) ==
  IF cp < 128 THEN <<cp>>
  ELSE IF cp < 2048 THEN <<192 + (cp \div 64), 128 + (cp % 64)>>
  ELSE IF cp < 65536
  THEN <<224 + (cp \div 4096), 128 + ((cp \div 64) % 64), 128 + (cp % 64)>>
  ELSE <<240 + (cp \div 262144), 128 + ((cp \div 4096) % 64),
         128 + ((cp \div 64) % 64), 128 + (cp % 64)>>

\* new TextEncoder().encode(str) from code unit i on: a surrogate pair is
\* one code point, a surrogate without its partner becomes U+FFFD
RECURSIVE TextEncodeFrom(_, _)
TextEncodeFrom(str, i) ==
  IF i > Len(str) THEN <<>>
  ELSE LET u == str[i] IN
       IF IsHighSurrogate(u) /\ i < Len(str) /\ IsLowSurrogate(str[i + 1])
       THEN EncodeCodePoint(65536 + (u - 55296) * 1024 + (str[i + 1] - 56320))
            \o TextEncodeFrom(str, i + 2)
       ELSE IF IsHighSurrogate(u) \/ IsLowSurrogate(u)
       THEN EncodeCodePoint(65533) \o TextEncodeFrom(str, i + 1)
       ELSE EncodeCodePoint(u) \o TextEncodeFrom(str, i + 1)

TextEncode(str) == TextEncodeFrom(str, 1)

IsContinuation(b) == b >= 128 /\ b <= 191

\* the UTF-16 code units of a code point
CodeUnits(cp) ==
  IF cp < 65536 THEN <<cp>>
  ELSE <<55296 + ((cp - 65536) \div 1024), 56320 + ((cp - 65536) % 1024)>>

\* the UTF-8 decoder from byte i on: a byte that starts no well-formed
\* sequence becomes U+FFFD
RECURSIVE TextDecodeFrom(_, _)
TextDecodeFrom(bytes, i) ==
  IF i > Len(bytes) THEN <<>>
  ELSE LET b == bytes[i]
           n == IF b < 128 THEN 1
                ELSE IF b >= 194 /\ b <= 223 THEN 2
                ELSE IF b >= 224 /\ b <= 239 THEN 3
                ELSE IF b >= 240 /\ b <= 244 THEN 4
                ELSE 0
           whole == /\ n > 0
                    /\ i + n - 1 <= Len(bytes)
                    /\ \A j \in (i + 1)..(i + n - 1) : IsContinuation(bytes[j])
           cp == CASE n = 1 -> b
                   [] n = 2 -> (b - 192) * 64 + (bytes[i + 1] - 128)
                   [] n = 3 -> (b - 224) * 4096 + (bytes[i + 1] - 128) * 64
                               + (bytes[i + 2] - 128)
                   [] n = 4 -> (b - 240) * 262144 + (bytes[i + 1] - 128) * 4096
                               + (bytes[i + 2] - 128) * 64 + (bytes[i + 3] - 128)
           wellFormed ==
             /\ whole
             /\ n = 3 => cp >= 2048 /\ ~IsHighSurrogate(cp) /\ ~IsLowSurrogate(cp)
             /\ n = 4 => cp >= 65536 /\ cp <= 1114111
       IN IF wellFormed THEN CodeUnits(cp) \o TextDecodeFrom(bytes, i + n)
          ELSE <<65533>> \o TextDecodeFrom(bytes, i + 1)

\* new TextDecoder().decode(bytes): ignoreBOM is false, so a byte order mark
\* at the start is not part of the result
TextDecode(bytes) ==
  IF Len(bytes) >= 3 /\ SubSeq(bytes, 1, 3) = <<239, 187, 191>>
  THEN TextDecodeFrom(bytes, 4)
  ELSE TextDecodeFrom(bytes, 1)

\* the base64 alphabet: A-Z, a-z, 0-9, + and /
Base64Char(v) ==
  IF v < 26 THEN 65 + v
  ELSE IF v < 52 THEN 97 + (v - 26)
  ELSE IF v < 62 THEN 48 + (v - 52)
  ELSE IF v = 62 THEN 43 ELSE 47

Base64Value(ch) ==
  IF ch >= 65 /\ ch <= 90 THEN ch - 65
  ELSE IF ch >= 97 /\ ch <= 122 THEN ch - 97 + 26
  ELSE IF ch >= 48 /\ ch <= 57 THEN ch - 48 + 52
  ELSE IF ch = 43 THEN 62
  ELSE IF ch = 47 THEN 63 ELSE -1

\* btoa from byte i on: three bytes make four characters, "=" fills the
\* last group
RECURSIVE BtoaFrom(_, _)
BtoaFrom(binary, i) ==
  LET left == Len(binary) - i + 1
      b1 == binary[i]
      b2 == binary[i + 1]
      b3 == binary[i + 2]
  IN IF left <= 0 THEN <<>>
     ELSE IF left = 1
     THEN <<Base64Char(b1 \div 4), Base64Char((b1 % 4) * 16), 61, 61>>
     ELSE IF left = 2
     THEN <<Base64Char(b1 \div 4), Base64Char((b1 % 4) * 16 + (b2 \div 16)),
            Base64Char((b2 % 16) * 4), 61>>
     ELSE <<Base64Char(b1 \div 4), Base64Char((b1 % 4) * 16 + (b2 \div 16)),
            Base64Char((b2 % 16) * 4 + (b3 \div 64)), Base64Char(b3 % 64)>>
          \o BtoaFrom(binary, i + 3)

\* bytes -> binary string (String.fromCharCode of each byte) -> btoa
arrayBufferToBase64(buffer) == BtoaFrom(buffer, 1)

\* the bytes of the base64 characters from character i on; the bits left
\* over in the last group are dropped
RECURSIVE DecodeSextets(_, _)
DecodeSextets(str, i) ==
  LET left == Len(str) - i + 1
      v1 == Base64Value(str[i])
      v2 == Base64Value(str[i + 1])
      v3 == Base64Value(str[i + 2])
      v4 == Base64Value(str[i + 3])
  IN IF left <= 1 THEN <<>>
     ELSE IF left = 2 THEN <<(v1 * 4) + (v2 \div 16)>>
     ELSE IF left = 3
     THEN <<(v1 * 4) + (v2 \div 16), (v2 % 16) * 16 + (v3 \div 4)>>
     ELSE <<(v1 * 4) + (v2 \div 16), (v2 % 16) * 16 + (v3 \div 4), (v3 % 4) * 64 + v4>>
          \o DecodeSextets(str, i + 4)

IsAsciiWhitespace(ch) == ch \in {9, 10, 12, 13, 32}

\* atob: white space is dropped, one or two "=" at the end of a text whose
\* length is a multiple of four are dropped, and what is left must be base64
\* characters whose number is not 1 modulo 4
Atob(data) ==
  LET stripped == SelectSeq(data, LAMBDA ch : ~IsAsciiWhitespace(ch))
      n == Len(stripped)
      unpadded ==
        IF n > 0 /\ n % 4 = 0 /\ stripped[n] = 61
        THEN IF stripped[n - 1] = 61 THEN SubSeq(stripped, 1, n - 2)
             ELSE SubSeq(stripped, 1, n - 1)
        ELSE stripped
  IN IF \/ Len(unpadded) % 4 = 1
        \/ \E i \in 1..Len(unpadded) : Base64Value(unpadded[i]) < 0
     THEN Err("InvalidCharacterError")
     ELSE Ok(DecodeSextets(unpadded, 1))

\* atob -> bytes (charCodeAt of each character)
base64ToArrayBuffer(base64) == Atob(base64)

\* ------------------------------------------------ encryption
\* The Web Crypto primitives, idealised as keyed and authenticated
\* transformations of bytes: a ciphertext opens under the key it was made
\* with and is rejected (OperationError) under any other.
KeyPairs == {1, 2}

\* the byte getRandomValues and generateKey return in this model
RandomBytes == {200}
AesKeys == [1..AesKeyLen -> RandomBytes]
Ivs == [1..IvLen -> RandomBytes]

RECURSIVE Sum(_)
Sum(bytes) == IF bytes = <<>> THEN 0 ELSE Head(bytes) + Sum(Tail(bytes))

\* crypto.subtle.encrypt / decrypt with RSA-OAEP under key pair n
RsaOaepEncrypt(publicKey, data) ==
  <<publicKey>> \o [i \in 1..Len(data) |-> (data[i] + publicKey) % 256]

RsaOaepDecrypt(privateKey, data) ==
  IF data = <<>> \/ data[1] # privateKey THEN Err("OperationError")
  ELSE Ok([i \in 1..(Len(data) - 1) |-> (data[i + 1] + 256 - privateKey) % 256])

\* the authentication tag of AES-GCM
GcmTag(key, iv, cipher) == (3 * Sum(key) + 5 * Sum(iv) + Sum(cipher) + 1) % 256

\* crypto.subtle.encrypt / decrypt with AES-GCM
AesGcmEncrypt(key, iv, data) ==
  LET cipher == [i \in 1..Len(data) |-> (data[i] + Sum(key) + Sum(iv)) % 256]
  IN cipher \o <<GcmTag(key, iv, cipher)>>

AesGcmDecrypt(key, iv, data) ==
  LET cipher == SubSeq(data, 1, Len(data) - 1) IN
  IF data = <<>> \/ data[Len(data)] # GcmTag(key, iv, cipher)
  THEN Err("OperationError")
  ELSE Ok([i \in 1..Len(cipher) |->
             (cipher[i] + 512 - ((Sum(key) + Sum(iv)) % 256)) % 256])

\* crypto.subtle.importKey('raw', ...) for AES-GCM accepts a key of the
\* right length only
ImportAesKey(raw) == IF Len(raw) = AesKeyLen THEN Ok(raw) ELSE Err("DataError")

\* encryptMessageHybrid, with the key and the iv it draws
encryptMessageHybrid(message, publicKey, aesKey, iv) ==
  LET messageData == TextEncode(message)
      encryptedData == AesGcmEncrypt(aesKey, iv, messageData)
      encryptedKey == RsaOaepEncrypt(publicKey, aesKey)
  IN [encryptedData |-> arrayBufferToBase64(encryptedData),
      encryptedKey |-> arrayBufferToBase64(encryptedKey),
      iv |-> arrayBufferToBase64(iv)]

\* the decryption shared by decryptMessageHybrid and decryptAttachmentHybrid:
\* the bytes of the plaintext, or the first error on the way
DecryptHybridBytes(encryptedData, encryptedKey, iv, privateKey) ==
  LET encryptedKeyBuffer == base64ToArrayBuffer(encryptedKey)
      decryptedKeyBuffer == RsaOaepDecrypt(privateKey, encryptedKeyBuffer.value)
      aesKey == ImportAesKey(decryptedKeyBuffer.value)
      ivBuffer == base64ToArrayBuffer(iv)
      encryptedDataBuffer == base64ToArrayBuffer(encryptedData)
  IN IF encryptedKeyBuffer.error # "none" THEN encryptedKeyBuffer
     ELSE IF decryptedKeyBuffer.error # "none" THEN decryptedKeyBuffer
     ELSE IF aesKey.error # "none" THEN aesKey
     ELSE IF ivBuffer.error # "none" THEN ivBuffer
     ELSE IF encryptedDataBuffer.error # "none" THEN encryptedDataBuffer
     ELSE AesGcmDecrypt(aesKey.value, ivBuffer.value, encryptedDataBuffer.value)

\* decryptMessageHybrid as it would be if a failed RSA-OAEP decryption were
\* caught and an empty text returned
decryptMessageHybridSwallows(encryptedData, encryptedKey, iv, privateKey) ==
  LET decryptedData ==
        DecryptHybridBytes(encryptedData, encryptedKey, iv, privateKey)
  IN IF decryptedData.error # "none" THEN Ok(<<>>)
     ELSE Ok(TextDecode(decryptedData.value))

decryptMessageHybrid(encryptedData, encryptedKey, iv, privateKey) ==
  LET decryptedData ==
        DecryptHybridBytes(encryptedData, encryptedKey, iv, privateKey)
  IN IF decryptedData.error # "none" THEN decryptedData
     ELSE Ok(TextDecode(decryptedData.value))

\* data.split(',')[1] || data
Comma == 44
SplitSecondOrAll(data) ==
  LET commas == {i \in 1..Len(data) : data[i] = Comma} IN
  IF commas = {} THEN data
  ELSE LET first == CHOOSE i \in commas : \A j \in commas : i <= j
           later == {i \in commas : i > first}
           last == IF later = {} THEN Len(data)
                   ELSE (CHOOSE i \in later : \A j \in later : i <= j) - 1
           second == SubSeq(data, first + 1, last)
       IN IF second = <<>> THEN data ELSE second

\* encryptAttachmentHybrid, with the key and the iv it draws
encryptAttachmentHybrid(data, publicKey, aesKey, iv) ==
  LET dataBuffer == base64ToArrayBuffer(SplitSecondOrAll(data)) IN
  IF dataBuffer.error # "none" THEN dataBuffer
  ELSE Ok([encryptedData |->
             arrayBufferToBase64(AesGcmEncrypt(aesKey, iv, dataBuffer.value)),
           encryptedKey |->
             arrayBufferToBase64(RsaOaepEncrypt(publicKey, aesKey)),
           iv |-> arrayBufferToBase64(iv)])

\* decryptAttachmentHybrid: base64 of the decrypted bytes
decryptAttachmentHybrid(encryptedData, encryptedKey, iv, privateKey) ==
  LET decryptedData ==
        DecryptHybridBytes(encryptedData, encryptedKey, iv, privateKey)
  IN IF decryptedData.error # "none" THEN decryptedData
     ELSE Ok(arrayBufferToBase64(decryptedData.value))

\* message texts: "a", e-acute, the euro sign, the byte order mark and the
\* two halves of a surrogate pair
TextUnits == {97, 233, 8364, 65279, 55357, 56832}
Texts == UNION {[1..n -> TextUnits] : n \in 0..MaxTextLen}

\* attachment files and the data URL FileReader.readAsDataURL makes of one
FileBytes == {0, 65, 255}
Files == UNION {[1..n -> FileBytes] : n \in 1..MaxFileLen}

\* "data:image/png;base64,"
DataUrlPrefix ==
  <<100, 97, 116, 97, 58, 105, 109, 97, 103, 101, 47, 112, 110, 103, 59,
    98, 97, 115, 101, 54, 52, 44>>

DataUrl(file) == DataUrlPrefix \o arrayBufferToBase64(file)

CryptoInputs ==
  {[kind |-> "text", data |-> t, publicKey |-> pub, privateKey |-> priv] :
      t \in Texts, pub \in KeyPairs, priv \in KeyPairs}
  \cup
  {[kind |-> "attachment", data |-> d, publicKey |-> pub, privateKey |-> priv] :
      d \in {DataUrl(f) : f \in Files} \cup {arrayBufferToBase64(f) : f \in Files},
      pub \in KeyPairs, priv \in KeyPairs}

InitCrypto ==
  /\ connections = [c \in Contacts |-> NoConn]
  /\ messageCallbacks = [c \in Contacts |-> {}]
  /\ pendingSignalingData = [c \in Contacts |-> <<>>]
  /\ iceCandidateCallbacks = [c \in Contacts |-> "none"]
  /\ connectionStates = [c \in Contacts |-> "absent"]
  /\ iceStates = [c \in Contacts |-> "absent"]
  /\ pcContact = [t \in Pcs |-> "none"]
  /\ pcClosed = [t \in Pcs |-> FALSE]
  /\ pcSignaling = [t \in Pcs |-> "new"]
  /\ pcConnState = [t \in Pcs |-> "new"]
  /\ pcIceState = [t \in Pcs |-> "new"]
  /\ pcCandidates = [t \in Pcs |-> <<>>]
  /\ pcLocalCands = [t \in Pcs |-> 0]
  /\ chState = [ch \in ChIds |-> "absent"]
  /\ chHandlers = {}
  /\ pcHandlers = {}
  /\ sent = [ch \in ChIds |-> <<>>]
  /\ connData = [c \in Contacts |-> <<>>]
  /\ loggedIn = FALSE
  /\ nEvents = 0
  /\ nApi = 0
  /\ calls = [k \in Slots |-> IdleCall]
  /\ lastOp = NoOp
  /\ codecIn = JNone
  /\ codecText = <<>>
  /\ codecOut = JNone
  /\ cryptoIn \in CryptoInputs
  /\ cryptoEnv = NoEnvelope
  /\ cryptoOut = NoResult
  /\ MessageInit

\* encryptMessageHybrid(cryptoIn.data, the public key)
EncryptText ==
  /\ cryptoIn.kind = "text"
  /\ cryptoEnv = NoEnvelope
  /\ \E aesKey \in AesKeys, iv \in Ivs :
       cryptoEnv' = encryptMessageHybrid(cryptoIn.data, cryptoIn.publicKey,
                                         aesKey, iv)
  /\ UNCHANGED <<mgrVars, codecVars, msgVars, cryptoIn, cryptoOut>>

\* decryptMessageHybrid(the envelope, the private key)
DecryptText ==
  /\ cryptoIn.kind = "text"
  /\ cryptoEnv # NoEnvelope
  /\ cryptoOut = NoResult
  /\ cryptoOut' = decryptMessageHybrid(cryptoEnv.encryptedData,
                                       cryptoEnv.encryptedKey, cryptoEnv.iv,
                                       cryptoIn.privateKey)
  /\ UNCHANGED <<mgrVars, codecVars, msgVars, cryptoIn, cryptoEnv>>

\* encryptAttachmentHybrid(cryptoIn.data, the public key); a rejected call
\* leaves no envelope
EncryptAttachment ==
  /\ cryptoIn.kind = "attachment"
  /\ cryptoEnv = NoEnvelope
  /\ cryptoOut = NoResult
  /\ \E aesKey \in AesKeys, iv \in Ivs :
       LET r == encryptAttachmentHybrid(cryptoIn.data, cryptoIn.publicKey,
                                        aesKey, iv) IN
       IF r.error = "none"
       THEN cryptoEnv' = r.value /\ UNCHANGED cryptoOut
       ELSE cryptoOut' = r /\ UNCHANGED cryptoEnv
  /\ UNCHANGED <<mgrVars, codecVars, msgVars, cryptoIn>>

\* decryptAttachmentHybrid(the envelope, the private key)
DecryptAttachment ==
  /\ cryptoIn.kind = "attachment"
  /\ cryptoEnv # NoEnvelope
  /\ cryptoOut = NoResult
  /\ cryptoOut' = decryptAttachmentHybrid(cryptoEnv.encryptedData,
                                          cryptoEnv.encryptedKey,
                                          cryptoEnv.iv, cryptoIn.privateKey)
  /\ UNCHANGED <<mgrVars, codecVars, msgVars, cryptoIn, cryptoEnv>>

NextCrypto ==
  \/ EncryptText
  \/ DecryptText
  \/ EncryptAttachment
  \/ DecryptAttachment

SpecCrypto == InitCrypto /\ [][NextCrypto]_vars

\* the bytes of an attachment given as a data URL or as bare base64
AttachmentBody(data) == base64ToArrayBuffer(SplitSecondOrAll(data))

\* C12: decrypting an envelope with the private key that matches the public
\* key it was made for returns exactly the plaintext that was encrypted: the
\* same text for a message text, the same bytes for an attachment body.
C12_DecryptReturnsPlaintext ==
  (cryptoEnv # NoEnvelope /\ cryptoOut # NoResult
     /\ cryptoIn.privateKey = cryptoIn.publicKey)
    => IF cryptoIn.kind = "text"
       THEN cryptoOut = Ok(cryptoIn.data)
       ELSE /\ cryptoOut.error = "none"
            /\ base64ToArrayBuffer(cryptoOut.value) = AttachmentBody(cryptoIn.data)

\* C13: decrypting an envelope with a private key other than the one that
\* matches the public key it was made for ends in a decryption error and
\* never returns a text.
C13_WrongKeyFails ==
  (cryptoEnv # NoEnvelope /\ cryptoOut # NoResult
     /\ cryptoIn.privateKey # cryptoIn.publicKey)
    => cryptoOut = Err("OperationError")

C13_Witness ==
  /\ cryptoEnv # NoEnvelope
  /\ cryptoOut = Err("OperationError")
  /\ cryptoIn.privateKey # cryptoIn.publicKey
  /\ cryptoIn.kind = "text"
  /\ cryptoIn.data # <<>>

\* ------------------------------------------------ MessageService.sendMessage
MaxMessages == 2

\* the logged-in user and the key pairs: the user holds pair 1, every
\* contact pair 2
UserId == "me"
UserKeyPair == 1
ContactKeyPair(c) == 2
UserPublicKey == <<"spki", UserKeyPair>>
UserPrivateKey == <<"pkcs8", UserKeyPair>>

\* the contacts of the contact list and an id that is not in it
KnownContacts == Contacts
Stranger == "carol"

\* SanitizationUtil.sanitizeMessage: the text content of the text, without
\* "javascript:" and without "on...=" (no text of this model holds either)
SanitizeMessage(text) == IF text = <<>> THEN <<>> ELSE text

\* str.split(sep)[k], <<>> where there is no such piece
RECURSIVE Piece(_, _, _)
Piece(str, sep, k) ==
  LET seps == {i \in 1..Len(str) : str[i] = sep}
      first == IF seps = {} THEN Len(str) + 1
               ELSE CHOOSE i \in seps : \A j \in seps : i <= j
  IN IF k = 0 THEN SubSeq(str, 1, first - 1)
     ELSE IF seps = {} THEN <<>>
     ELSE Piece(SubSeq(str, first + 1, Len(str)), sep, k - 1)

\* "image/jpeg"
DefaultMimeType == <<105, 109, 97, 103, 101, 47, 106, 112, 101, 103>>

\* data.split(';')[0].split(':')[1] || 'image/jpeg'
MimeType(data) ==
  LET mime == Piece(Piece(data, 59, 0), 58, 1) IN
  IF mime = <<>> THEN DefaultMimeType ELSE mime

\* the value of a member of an object, and the keys of an object
Member(obj, key) == (CHOOSE i \in 1..Len(obj) : obj[i][1] = key)
Has(obj, key) == \E i \in 1..Len(obj) : obj[i][1] = key
Get(obj, key) == obj[Member(obj, key)][2]
Keys(obj) == {obj[i][1] : i \in 1..Len(obj)}

\* the object sendMessage hands to JSON.stringify as it would be if the
\* sanitized text were sent along with its envelope
SendPayloadWithText(rec) ==
  <<<<"encryptedContent", rec.encryptedContent>>,
    <<"text", rec.text>>,
    <<"timestamp", rec.message.timestamp>>>>

\* the object sendMessage hands to JSON.stringify: a member whose value is
\* undefined is left out of the text
SendPayload(rec) ==
  <<<<"encryptedContent", rec.encryptedContent>>>>
  \o (IF rec.encryptedAttachment # NoEnvelope
      THEN <<<<"attachment",
               <<<<"encryptedData", rec.encryptedAttachment>>,
                 <<"filename", "file.png">>,
                 <<"size", Len(rec.file)>>,
                 <<"type", "image">>,
                 <<"mimeType", MimeType(rec.message.attachment)>>>>>>>>
      ELSE <<>>)
  \o <<<<"timestamp", rec.message.timestamp>>>>

\* storageService.saveMessage: db.put under the id of the message
RECURSIVE Put(_, _)
Put(store, m) ==
  IF store = <<>> THEN <<m>>
  ELSE IF Head(store).id = m.id THEN <<m>> \o Tail(store)
  ELSE <<Head(store)>> \o Put(Tail(store), m)

\* the end of a MessageService call
MsgFinish(rec, result) ==
  /\ msgCall' = IdleMsgCall
  /\ msgOp' = [op |-> rec.op, c |-> rec.c, result |-> result,
               id |-> rec.message.id, payload |-> rec.payload,
               session |-> rec.session, connected |-> rec.connected,
               wrote |-> rec.wrote, active |-> rec.active,
               rejected |-> rec.op = "sendMessage" /\ result # "ok",
               before |-> rec.before]

\* what a call that ends with an error leaves: a failed send as it would be
\* if the Message had been saved before the key was imported
AbortSendAfterSave(rec, result) ==
  /\ MsgFinish(rec, result)
  /\ msgStore' = Append(msgStore, [NoMessage EXCEPT !.id = nMsgs,
                                                    !.senderId = UserId,
                                                    !.recipientId = rec.c])
  /\ UNCHANGED <<mgrVars, codecVars, cryptoVars, parked, messages,
                 currentContactId, messageUnsubscribers, unreadCount,
                 lastMessageTimestamp, nMsgs>>

\* what a send that ends with an error before the Message is built leaves:
\* handleError shows the toast and the error is thrown again
AbortSend(rec, result) ==
  /\ MsgFinish(rec, result)
  /\ UNCHANGED <<mgrVars, codecVars, cryptoVars, parked, msgStore, messages,
                 currentContactId, messageUnsubscribers, unreadCount,
                 lastMessageTimestamp, nMsgs>>

\* the stores a send must leave alone when it fails
SendEffects == <<msgStore, messages, sent, lastMessageTimestamp>>

\* sendMessage up to "await importPublicKey(contact.publicKey)"
MessageSend(text, c, attach, file) ==
  LET rec == [IdleMsgCall EXCEPT !.op = "sendMessage", !.c = c,
                                 !.text = SanitizeMessage(text),
                                 !.attach = attach, !.file = file,
                                 !.seq = nMsgs + 1,
                                 !.before = SendEffects] IN
  /\ msgCall.op = "idle"
  /\ nMsgs < MaxMessages
  /\ nMsgs' = nMsgs + 1
  /\ IF ~loggedIn THEN MsgFinish(rec, "NotAuthenticated")
     ELSE IF c \notin KnownContacts THEN MsgFinish(rec, "ContactNotFound")
     ELSE /\ msgCall' = [rec EXCEPT !.pos = "sm_key"]
          /\ msgOp' = [NoMsgOp EXCEPT !.op = "sendMessage", !.c = c,
                                      !.result = "pending"]
  /\ UNCHANGED <<mgrVars, codecVars, cryptoVars, parked, msgStore, messages,
                 currentContactId, messageUnsubscribers, unreadCount,
                 lastMessageTimestamp>>

\* after importPublicKey: the key, or the catch that reports and rethrows
SendKeyImported ==
  /\ msgCall.pos = "sm_key"
  /\ \E ok \in BOOLEAN :
       IF ok
       THEN /\ msgCall' = [msgCall EXCEPT !.pos = "sm_encrypt"]
            /\ UNCHANGED <<mgrVars, codecVars, cryptoVars, parked, msgStore,
                           messages, currentContactId, messageUnsubscribers,
                           unreadCount, lastMessageTimestamp, nMsgs, msgOp>>
       ELSE AbortSend(msgCall, "KeyImportError")

\* the Message object of the call and the synchronous part of the try block
\* around p2pService.sendMessage: the payload is written when the service
\* has a connection in state 'connected' whose channel is open
BuildAndSend(rec0) ==
  LET c == rec0.c
      message == [id |-> rec0.seq, senderId |-> UserId, recipientId |-> c,
                  content |-> rec0.text,
                  attachment |-> IF rec0.encryptedAttachment # NoEnvelope
                                 THEN DataUrl(rec0.file) ELSE <<>>,
                  timestamp |-> nMsgs, encrypted |-> TRUE,
                  delivered |-> FALSE, read |-> FALSE]
      rec1 == [rec0 EXCEPT !.message = message]
      payload == SendPayload(rec1)
      session == HasConnection(c)
      connected == session /\ GetConnectionState(c) = "connected"
      ch == connections[c].dataChannel
      open == ch # 0 /\ chState[ch] = "open"
      wrote == connected /\ open
  IN /\ wrote => Len(sent[ch]) < MaxSent
     /\ sent' = IF wrote THEN [sent EXCEPT ![ch] = Append(@, payload)]
                ELSE sent
     /\ msgCall' = [rec1 EXCEPT !.pos = "sm_save", !.payload = payload,
                                !.session = session,
                                !.connected = connected, !.wrote = wrote]
     /\ UNCHANGED <<connections, messageCallbacks, pendingSignalingData,
                    iceCandidateCallbacks, connectionStates, iceStates,
                    pcVars, chState, chHandlers, pcHandlers, connData,
                    loggedIn, nEvents, nApi, calls, lastOp>>
     /\ UNCHANGED <<codecVars, cryptoVars, parked, msgStore, messages,
                    currentContactId, messageUnsubscribers, unreadCount,
                    lastMessageTimestamp, nMsgs, msgOp>>

\* after encryptMessageHybrid(sanitizedText, recipientPublicKey)
SendEncrypted ==
  /\ msgCall.pos = "sm_encrypt"
  /\ \E aesKey \in AesKeys, iv \in Ivs :
       LET rec == [msgCall EXCEPT !.encryptedContent =
                     encryptMessageHybrid(msgCall.text,
                                          ContactKeyPair(msgCall.c),
                                          aesKey, iv)] IN
       IF msgCall.attach
       THEN /\ msgCall' = [rec EXCEPT !.pos = "sm_attach"]
            /\ UNCHANGED <<mgrVars, codecVars, cryptoVars, parked, msgStore,
                           messages, currentContactId, messageUnsubscribers,
                           unreadCount, lastMessageTimestamp, nMsgs, msgOp>>
       ELSE BuildAndSend(rec)

\* after fileToBase64 and encryptAttachmentHybrid(base64Data.data, key)
SendAttachmentEncrypted ==
  /\ msgCall.pos = "sm_attach"
  /\ \E aesKey \in AesKeys, iv \in Ivs :
       LET r == encryptAttachmentHybrid(DataUrl(msgCall.file),
                                        ContactKeyPair(msgCall.c),
                                        aesKey, iv) IN
       IF r.error # "none" THEN AbortSend(msgCall, "AttachmentError")
       ELSE BuildAndSend([msgCall EXCEPT !.encryptedAttachment = r.value])

\* the Message sendMessage saves as it would be if delivered were set for
\* every send to a contact that has a session
MessageToSaveOptimistic(rec) == [rec.message EXCEPT !.delivered = rec.session]

\* the Message sendMessage saves: delivered is set after the awaited
\* p2pService.sendMessage has resolved
MessageToSave(rec) == [rec.message EXCEPT !.delivered = rec.wrote]

\* after the try block: saveMessage, then the live list and the contact
SendSaved ==
  LET rec == msgCall
      message == MessageToSave(rec) IN
  /\ rec.pos = "sm_save"
  /\ \E ok \in BOOLEAN :
       IF ok
       THEN /\ msgStore' = Put(msgStore, message)
            /\ messages' = Append(messages, message)
            /\ lastMessageTimestamp' =
                 [lastMessageTimestamp EXCEPT ![rec.c] = message.timestamp]
            /\ MsgFinish(rec, "ok")
            /\ UNCHANGED <<mgrVars, codecVars, cryptoVars, parked, currentContactId,
                           messageUnsubscribers, unreadCount, nMsgs>>
       ELSE /\ MsgFinish(rec, "StorageError")
            /\ UNCHANGED <<mgrVars, codecVars, cryptoVars, parked, msgStore,
                           messages, currentContactId, messageUnsubscribers,
                           unreadCount, lastMessageTimestamp, nMsgs>>

\* createHandshakeData as it would be if it attached the buffer of the
\* contact whether or not it holds anything
createHandshakeDataAlways(userId, username, publicKey, c) ==
  <<<<"version", "1.0">>, <<"userId", userId>>, <<"username", username>>,
    <<"publicKey", publicKey>>>>
  \o (IF c # "none"
      THEN <<<<"connectionData", pendingSignalingData[c]>>>> ELSE <<>>)

\* createHandshakeData(userId, username, publicKey, contactId)
createHandshakeData(userId, username, publicKey, c) ==
  <<<<"version", "1.0">>, <<"userId", userId>>, <<"username", username>>,
    <<"publicKey", publicKey>>>>
  \o (IF c # "none" /\ pendingSignalingData[c] # <<>>
      THEN <<<<"connectionData", pendingSignalingData[c]>>>> ELSE <<>>)

\* SidebarComponent.copyPublicKey: the handshake of the logged-in user
CopyPublicKey(c) ==
  /\ loggedIn
  /\ msgCall.op = "idle"
  /\ nMsgs < MaxMessages
  /\ nMsgs' = nMsgs + 1
  /\ msgOp' = [NoMsgOp EXCEPT !.op = "copyPublicKey", !.c = c, !.result = "ok",
                 !.payload = createHandshakeData(UserId, "user",
                                                 UserPublicKey, c)]
  /\ UNCHANGED <<mgrVars, codecVars, cryptoVars, parked, msgStore, messages,
                 currentContactId, messageUnsubscribers, unreadCount,
                 lastMessageTimestamp, msgCall>>

\* what is sent: a text, with no file, an empty file or a file of one byte
MsgTexts == {<<97>>}
MsgFiles == {<<FALSE, <<>>>>, <<TRUE, <<>>>>, <<TRUE, <<65>>>>}

\* the offer of a contact with whom there is no session yet
FirstHandleOffer(c) ==
  ~HasConnection(c) /\ AwaitedHandleOffer("remoteOffer", c)

\* sending: a session made by an offer from the contact, its channel and
\* transport events, and sends of texts and files
NextSend ==
  \/ \E c \in One : FirstHandleOffer(c)
  \/ \E k \in Slots : HandleOfferRemoteSet(k)
  \/ \E k \in Slots : HandleOfferAnswered(k)
  \/ \E k \in Slots : HandleOfferSaved(k)
  \/ \E ch \in ChIds : ChannelOpen(ch)
  \/ \E ch \in ChIds : ChannelClose(ch)
  \/ \E t \in Pcs : PcDataChannel(t)
  \/ \E t \in Pcs, s \in ConnStates : PcConnectionStateChange(t, s)
  \/ \E text \in MsgTexts, c \in One \cup {Stranger}, f \in MsgFiles :
        MessageSend(text, c, f[1], f[2])
  \/ SendKeyImported
  \/ SendEncrypted
  \/ SendAttachmentEncrypted
  \/ SendSaved
  \/ \E c \in One \cup {"none"} : CopyPublicKey(c)

SpecSend == Init /\ [][NextSend]_vars

\* the Message saved under an id, NoMessage when there is none
Stored(id) ==
  IF \E i \in 1..Len(msgStore) : msgStore[i].id = id
  THEN msgStore[CHOOSE i \in 1..Len(msgStore) : msgStore[i].id = id]
  ELSE NoMessage

\* C14: the Message a send has saved has delivered = true exactly when the
\* service reported 'connected' for the contact at send time and the payload
\* of the message was written to a channel; it has encrypted = true; and a
\* send to a contact without a session saves delivered = false and writes
\* nothing.
C14_DeliveredIffConnectedAndWritten ==
  (msgOp.op = "sendMessage" /\ msgOp.result = "ok") =>
    LET m == Stored(msgOp.id)
        written == \E ch \in ChIds : \E i \in 1..Len(sent[ch]) :
                      sent[ch][i] = msgOp.payload
    IN /\ m # NoMessage
       /\ m.delivered <=> (msgOp.connected /\ written)
       /\ m.encrypted
       /\ ~msgOp.session => (~m.delivered /\ sent = msgOp.before[3])

C14_Witness ==
  /\ msgOp.op = "sendMessage"
  /\ msgOp.result = "ok"
  /\ Stored(msgOp.id).delivered
  /\ Len(msgStore) = 2
  /\ ~msgStore[1].delivered

\* C15: a send in which importPublicKey fails ends with that error and has
\* changed nothing since it began: the stored messages, the live list, the
\* channel writes and the last-message timestamps are as they were.
C15_KeyImportFailureHasNoEffect ==
  [][(msgCall.op = "sendMessage" /\ msgOp'.result = "KeyImportError")
        => /\ UNCHANGED SendEffects
           /\ msgOp'.before = SendEffects']_vars

C15_Witness ==
  /\ msgOp.op = "sendMessage"
  /\ msgOp.result = "KeyImportError"
  /\ msgStore # <<>>

IsEnvelope(e) == DOMAIN e = {"encryptedData", "encryptedKey", "iv"}

\* the texts and data URLs the sends of this model start from
Plaintexts == MsgTexts \cup {DataUrl(f[2]) : f \in MsgFiles}

\* no part of envelope e is one of the plaintexts
Opaque(e) ==
  /\ IsEnvelope(e)
  /\ {e.encryptedData, e.encryptedKey, e.iv} \cap Plaintexts = {}

\* C16: a payload written to a channel holds the envelope of the text, the
\* envelope and the metadata of the attachment and the timestamp, and
\* nothing else: no plaintext text, no plaintext attachment data, no private
\* key; and a handshake holds the public key of the user, never the private
\* one.
C16_OnlyEnvelopesLeave ==
  /\ \A ch \in ChIds : \A i \in 1..Len(sent[ch]) :
       LET p == sent[ch][i] IN
       /\ Keys(p) \subseteq {"encryptedContent", "attachment", "timestamp"}
       /\ Opaque(Get(p, "encryptedContent"))
       /\ decryptMessageHybrid(Get(p, "encryptedContent").encryptedData,
                               Get(p, "encryptedContent").encryptedKey,
                               Get(p, "encryptedContent").iv,
                               ContactKeyPair("alice")).value \in MsgTexts
       /\ Has(p, "attachment") =>
            LET a == Get(p, "attachment") IN
            /\ Keys(a) = {"encryptedData", "filename", "size", "type",
                          "mimeType"}
            /\ Opaque(Get(a, "encryptedData"))
            /\ Get(a, "mimeType") \notin Plaintexts
  /\ msgOp.op = "copyPublicKey" =>
       LET h == msgOp.payload IN
       /\ Keys(h) \subseteq {"version", "userId", "username", "publicKey",
                             "connectionData"}
       /\ Get(h, "publicKey") = UserPublicKey
       /\ UserPublicKey # UserPrivateKey
       /\ Get(h, "userId") = UserId
       /\ Get(h, "username") = "user"
       /\ Has(h, "connectionData") =>
            Get(h, "connectionData") = pendingSignalingData[msgOp.c]

C16_Witness ==
  \E ch \in ChIds :
    /\ sent[ch] # <<>>
    /\ Has(sent[ch][1], "attachment")
    /\ Stored(Get(sent[ch][1], "timestamp")).attachment # <<>>


\* ------------------------------------------------ receiving
\* messageData as the listener gets it: text that is no JSON, the JSON value
\* null, or a JSON object with its members
NotJson == [kind |-> "text", members |-> <<>>]
JsonNull == [kind |-> "null", members |-> <<>>]
JsonObject(members) == [kind |-> "object", members |-> members]

\* JSON.parse(messageData)
ParsePayload(messageData) ==
  IF messageData.kind = "text" THEN Err("SyntaxError") ELSE Ok(messageData)

\* a base64 string with its first character replaced by another one
Tamper(str) ==
  <<IF Head(str) = Base64Char(0) THEN Base64Char(1) ELSE Base64Char(0)>>
  \o Tail(str)

\* what the peer sends: envelopes made for the user's key, for another key,
\* and changed on the way
PeerText == <<97>>
PeerFile == <<65>>
PeerStamp == 5
GoodEnvelope ==
  encryptMessageHybrid(PeerText, UserKeyPair, <<200>>, <<200>>)
WrongKeyEnvelope ==
  encryptMessageHybrid(PeerText, ContactKeyPair("alice"), <<200>>, <<200>>)
TamperedKeyEnvelope ==
  [GoodEnvelope EXCEPT !.encryptedKey = Tamper(@)]
TamperedDataEnvelope ==
  [GoodEnvelope EXCEPT !.encryptedData = Tamper(@)]
GoodAttachmentEnvelope ==
  encryptAttachmentHybrid(DataUrl(PeerFile), UserKeyPair, <<200>>, <<200>>).value
AttachmentMembers(envelope) ==
  <<<<"encryptedData", envelope>>, <<"filename", "f.png">>, <<"size", 1>>,
    <<"type", "image">>, <<"mimeType", MimeType(DataUrl(PeerFile))>>>>
LegacyAttachment ==
  <<<<"data", DataUrl(PeerFile)>>, <<"filename", "f.png">>, <<"size", 1>>,
    <<"type", "image">>>>

ValidPayloads ==
  {JsonObject(<<<<"encryptedContent", GoodEnvelope>>,
                <<"timestamp", PeerStamp>>>>),
   JsonObject(<<<<"encryptedContent", GoodEnvelope>>,
                <<"attachment", AttachmentMembers(GoodAttachmentEnvelope)>>,
                <<"timestamp", PeerStamp>>>>),
   JsonObject(<<<<"text", PeerText>>, <<"timestamp", PeerStamp>>>>),
   JsonObject(<<<<"text", PeerText>>, <<"attachment", LegacyAttachment>>>>)}

BadPayloads ==
  {NotJson, JsonNull,
   JsonObject(<<<<"timestamp", PeerStamp>>>>),
   JsonObject(<<<<"encryptedContent", WrongKeyEnvelope>>,
                <<"timestamp", PeerStamp>>>>),
   JsonObject(<<<<"encryptedContent", TamperedKeyEnvelope>>,
                <<"timestamp", PeerStamp>>>>),
   JsonObject(<<<<"encryptedContent", TamperedDataEnvelope>>,
                <<"timestamp", PeerStamp>>>>),
   JsonObject(<<<<"encryptedContent", GoodEnvelope>>,
                <<"attachment",
                  AttachmentMembers([GoodAttachmentEnvelope
                                       EXCEPT !.encryptedKey = Tamper(@)])>>,
                <<"timestamp", PeerStamp>>>>)}

Payloads == ValidPayloads \cup BadPayloads


\* the variables of the P2PService that MessageService calls leave alone
mgrRest ==
  <<connections, pendingSignalingData, iceCandidateCallbacks,
    connectionStates, iceStates, pcVars, chState, chHandlers, pcHandlers,
    sent, connData, loggedIn, nEvents, nApi, calls, lastOp>>

\* the callback setupMessageListener registers with p2pService.onMessage
Listener == "listener"

\* what receiving a message may change
RecvEffects == <<msgStore, messages, unreadCount, lastMessageTimestamp>>

\* the filter of markAsRead as it would be with sender and recipient swapped
UnreadFromUser(c, m) ==
  m.recipientId = c /\ m.senderId = UserId /\ ~m.read

\* m is a message from contact c to the user that is not read yet
UnreadFrom(c, m) ==
  m.recipientId = UserId /\ m.senderId = c /\ ~m.read

\* the catch of handleIncomingMessage as it would be if it counted the
\* dropped payload as an unread message
DropIncomingCounted(rec, result) ==
  /\ MsgFinish(rec, result)
  /\ unreadCount' = [unreadCount EXCEPT ![rec.c] = @ + 1]
  /\ UNCHANGED <<mgrVars, codecVars, cryptoVars, parked, msgStore, messages,
                 currentContactId, messageUnsubscribers,
                 lastMessageTimestamp, nMsgs>>

\* the catch of handleIncomingMessage: the error is shown, nothing is thrown
DropIncoming(rec, result) ==
  /\ MsgFinish(rec, result)
  /\ UNCHANGED <<mgrVars, codecVars, cryptoVars, parked, msgStore, messages,
                 currentContactId, messageUnsubscribers, unreadCount,
                 lastMessageTimestamp, nMsgs>>

\* the listener is called with messageData: the user check and JSON.parse
IncomingMessage(c, messageData) ==
  LET rec == [IdleMsgCall EXCEPT !.op = "handleIncomingMessage", !.c = c,
                                 !.data = messageData,
                                 !.seq = nMsgs + 1,
                                 !.before = RecvEffects] IN
  /\ msgCall.op = "idle"
  /\ c \in messageUnsubscribers
  /\ Listener \in messageCallbacks[c]
  /\ nMsgs < MaxMessages
  /\ IF ~loggedIn
     THEN /\ MsgFinish(rec, "NoUser")
          /\ nMsgs' = nMsgs + 1
          /\ UNCHANGED <<mgrVars, codecVars, cryptoVars, parked, msgStore, messages,
                         currentContactId, messageUnsubscribers, unreadCount,
                         lastMessageTimestamp>>
     ELSE IF ParsePayload(messageData).error # "none"
     THEN /\ MsgFinish(rec, "SyntaxError")
          /\ nMsgs' = nMsgs + 1
          /\ UNCHANGED <<mgrVars, codecVars, cryptoVars, parked, msgStore, messages,
                         currentContactId, messageUnsubscribers, unreadCount,
                         lastMessageTimestamp>>
     ELSE /\ msgCall' = [rec EXCEPT !.pos = "hm_key"]
          /\ msgOp' = [NoMsgOp EXCEPT !.op = "handleIncomingMessage",
                                      !.c = c, !.result = "pending"]
          /\ nMsgs' = nMsgs + 1
          /\ UNCHANGED <<mgrVars, codecVars, cryptoVars, parked, msgStore, messages,
                         currentContactId, messageUnsubscribers, unreadCount,
                         lastMessageTimestamp>>

\* `data:${mimeType};base64,${decryptedBase64}`, unless it starts with data:
ReconstructDataUrl(mimeType, decryptedBase64) ==
  IF Len(decryptedBase64) >= 5
     /\ SubSeq(decryptedBase64, 1, 5) = <<100, 97, 116, 97, 58>>
  THEN decryptedBase64
  ELSE <<100, 97, 116, 97, 58>> \o mimeType
       \o <<59, 98, 97, 115, 101, 54, 52, 44>> \o decryptedBase64

\* the Message of an incoming payload, and the wait for saveMessage
ToSave(rec, attachmentData) ==
  LET stamp == IF Has(rec.data.members, "timestamp")
                  /\ Get(rec.data.members, "timestamp") # 0
               THEN Get(rec.data.members, "timestamp") ELSE nMsgs
      message == [id |-> rec.seq, senderId |-> rec.c, recipientId |-> UserId,
                  content |-> rec.text, attachment |-> attachmentData,
                  timestamp |-> stamp,
                  encrypted |-> Has(rec.data.members, "encryptedContent"),
                  delivered |-> TRUE, read |-> FALSE] IN
  /\ msgCall' = [rec EXCEPT !.pos = "hm_save", !.message = message]
  /\ UNCHANGED <<mgrVars, codecVars, cryptoVars, parked, msgStore, messages,
                 currentContactId, messageUnsubscribers, unreadCount,
                 lastMessageTimestamp, nMsgs, msgOp>>

\* the attachment branch that follows the content
AfterContent(rec) ==
  IF ~Has(rec.data.members, "attachment") THEN ToSave(rec, <<>>)
  ELSE LET a == Get(rec.data.members, "attachment") IN
       IF Has(a, "encryptedData")
          /\ Get(a, "encryptedData").encryptedData # <<>>
       THEN /\ msgCall' = [rec EXCEPT !.pos = "hm_attach",
                             !.encryptedAttachment = Get(a, "encryptedData")]
            /\ UNCHANGED <<mgrVars, codecVars, cryptoVars, parked, msgStore,
                           messages, currentContactId, messageUnsubscribers,
                           unreadCount, lastMessageTimestamp, nMsgs, msgOp>>
       ELSE IF Has(a, "data") /\ Get(a, "data") # <<>>
       THEN ToSave(rec, Get(a, "data"))
       ELSE ToSave(rec, <<>>)

\* after importPrivateKey(user.privateKey): the branch on the payload
IncomingKeyImported ==
  LET rec == msgCall
      payload == rec.data.members IN
  /\ rec.pos = "hm_key"
  /\ \E ok \in BOOLEAN :
       IF ~ok THEN DropIncoming(rec, "KeyImportError")
       ELSE IF rec.data.kind = "null" THEN DropIncoming(rec, "TypeError")
       ELSE IF Has(payload, "encryptedContent")
       THEN /\ msgCall' = [rec EXCEPT !.pos = "hm_decrypt",
                             !.encryptedContent =
                                Get(payload, "encryptedContent")]
            /\ UNCHANGED <<mgrVars, codecVars, cryptoVars, parked, msgStore,
                           messages, currentContactId, messageUnsubscribers,
                           unreadCount, lastMessageTimestamp, nMsgs, msgOp>>
       ELSE IF Has(payload, "text") /\ Get(payload, "text") # <<>>
       THEN AfterContent([rec EXCEPT !.text =
                            SanitizeMessage(Get(payload, "text"))])
       ELSE DropIncoming(rec, "InvalidFormat")

\* after decryptMessageHybrid(encryptedContent ..., privateKey)
IncomingDecrypted ==
  LET rec == msgCall
      e == rec.encryptedContent
      rawContent == decryptMessageHybrid(e.encryptedData, e.encryptedKey,
                                         e.iv, UserKeyPair) IN
  /\ rec.pos = "hm_decrypt"
  /\ IF rawContent.error # "none" THEN DropIncoming(rec, "DecryptError")
     ELSE AfterContent([rec EXCEPT !.text = SanitizeMessage(rawContent.value)])

\* after decryptAttachmentHybrid(encryptedAttachment ..., privateKey)
IncomingAttachmentDecrypted ==
  LET rec == msgCall
      e == rec.encryptedAttachment
      a == Get(rec.data.members, "attachment")
      decryptedBase64 == decryptAttachmentHybrid(e.encryptedData,
                           e.encryptedKey, e.iv, UserKeyPair)
      mimeType == IF Has(a, "mimeType") /\ Get(a, "mimeType") # <<>>
                  THEN Get(a, "mimeType") ELSE DefaultMimeType IN
  /\ rec.pos = "hm_attach"
  /\ IF decryptedBase64.error # "none"
     THEN DropIncoming(rec, "AttachmentError")
     ELSE ToSave(rec, ReconstructDataUrl(mimeType, decryptedBase64.value))

\* messages.map(m => ... ? { ...m, read: true } : m)
RECURSIVE MarkRead(_, _)
MarkRead(msgs, c) ==
  IF msgs = <<>> THEN <<>>
  ELSE <<IF UnreadFrom(c, Head(msgs)) THEN [Head(msgs) EXCEPT !.read = TRUE]
         ELSE Head(msgs)>> \o MarkRead(Tail(msgs), c)

\* this._messages().filter(... && !m.read) of markAsRead
MessagesToUpdate(msgs, c) == SelectSeq(msgs, LAMBDA m : UnreadFrom(c, m))

\* after storageService.saveMessage(message): the live list and markAsRead
\* when the contact is the current one, the unread count when it is not,
\* then the contact's last message
IncomingSaved ==
  LET rec == msgCall
      c == rec.c
      message == rec.message
      active == currentContactId = c
      todo == MessagesToUpdate(Append(messages, message), c) IN
  /\ rec.pos = "hm_save"
  /\ \E ok \in BOOLEAN :
       IF ~ok THEN DropIncoming(rec, "StorageError")
       ELSE IF active /\ todo # <<>>
       THEN /\ msgStore' = Put(msgStore, message)
            /\ messages' = Append(messages, message)
            /\ msgCall' = [rec EXCEPT !.pos = "mark", !.active = TRUE,
                                      !.todo = todo]
            /\ UNCHANGED <<mgrVars, codecVars, cryptoVars, parked, currentContactId,
                           messageUnsubscribers, unreadCount,
                           lastMessageTimestamp, nMsgs, msgOp>>
       ELSE IF active
       THEN /\ msgStore' = Put(msgStore, message)
            /\ messages' = Append(messages, message)
            /\ lastMessageTimestamp' =
                 [lastMessageTimestamp EXCEPT ![c] = message.timestamp]
            /\ MsgFinish([rec EXCEPT !.active = TRUE], "ok")
            /\ UNCHANGED <<mgrVars, codecVars, cryptoVars, parked, currentContactId,
                           messageUnsubscribers, unreadCount, nMsgs>>
       ELSE /\ msgStore' = Put(msgStore, message)
            /\ unreadCount' = [unreadCount EXCEPT ![c] = @ + 1]
            /\ lastMessageTimestamp' =
                 [lastMessageTimestamp EXCEPT ![c] = message.timestamp]
            /\ MsgFinish(rec, "ok")
            /\ UNCHANGED <<mgrVars, codecVars, cryptoVars, parked, messages,
                           currentContactId, messageUnsubscribers, nMsgs>>

\* markAsRead: after saveMessage of one message of the loop; after the last
\* one the live list and the unread count, and what the caller does next
MarkSaved ==
  LET rec == msgCall
      c == rec.c
      updatedMessage == [Head(rec.todo) EXCEPT !.read = TRUE] IN
  /\ rec.pos = "mark"
  /\ \E ok \in BOOLEAN :
       IF ~ok
       THEN /\ messages' = IF rec.op = "loadMessages" THEN <<>> ELSE messages
            /\ MsgFinish(rec, "StorageError")
            /\ UNCHANGED <<mgrVars, codecVars, cryptoVars, parked, msgStore,
                           currentContactId, messageUnsubscribers,
                           unreadCount, lastMessageTimestamp, nMsgs>>
       ELSE IF Tail(rec.todo) # <<>>
       THEN /\ msgStore' = Put(msgStore, updatedMessage)
            /\ msgCall' = [rec EXCEPT !.todo = Tail(@)]
            /\ UNCHANGED <<mgrVars, codecVars, cryptoVars, parked, messages,
                           currentContactId, messageUnsubscribers,
                           unreadCount, lastMessageTimestamp, nMsgs, msgOp>>
       ELSE /\ msgStore' = Put(msgStore, updatedMessage)
            /\ messages' = MarkRead(messages, c)
            /\ unreadCount' = [unreadCount EXCEPT ![c] = 0]
            /\ lastMessageTimestamp' =
                 IF rec.op = "handleIncomingMessage"
                 THEN [lastMessageTimestamp EXCEPT
                         ![c] = rec.message.timestamp]
                 ELSE lastMessageTimestamp
            /\ MsgFinish(rec, "ok")
            /\ UNCHANGED <<mgrVars, codecVars, cryptoVars, parked, currentContactId,
                           messageUnsubscribers, nMsgs>>

\* conversationMessages.sort by timestamp (a stable sort)
RECURSIVE InsertByTimestamp(_, _)
InsertByTimestamp(sorted, m) ==
  IF sorted = <<>> THEN <<m>>
  ELSE IF m.timestamp < Head(sorted).timestamp THEN <<m>> \o sorted
  ELSE <<Head(sorted)>> \o InsertByTimestamp(Tail(sorted), m)

RECURSIVE SortByTimestamp(_)
SortByTimestamp(msgs) ==
  IF msgs = <<>> THEN <<>>
  ELSE InsertByTimestamp(SortByTimestamp(SubSeq(msgs, 1, Len(msgs) - 1)),
                         msgs[Len(msgs)])

\* StorageService.getMessages(contactId, userId)
getMessages(c, userId) ==
  SortByTimestamp(
    SelectSeq(msgStore, LAMBDA m : m.senderId = userId /\ m.recipientId = c)
    \o SelectSeq(msgStore, LAMBDA m : m.recipientId = userId /\ m.senderId = c))

\* loadMessages(contactId) up to the wait for getMessages
LoadMessages(c) ==
  LET rec == [IdleMsgCall EXCEPT !.op = "loadMessages", !.c = c] IN
  /\ msgCall.op = "idle"
  /\ IF ~loggedIn
     THEN /\ messages' = <<>>
          /\ MsgFinish(rec, "NoUser")
     ELSE /\ msgCall' = [rec EXCEPT !.pos = "lm_get"]
          /\ msgOp' = [NoMsgOp EXCEPT !.op = "loadMessages", !.c = c,
                                      !.result = "pending"]
          /\ UNCHANGED messages
  /\ UNCHANGED <<mgrVars, codecVars, cryptoVars, parked, msgStore, currentContactId,
                 messageUnsubscribers, unreadCount, lastMessageTimestamp,
                 nMsgs>>

\* after getMessages: the live list, the current contact, the listener
\* (setupMessageListener) and the start of markAsRead
LoadGot ==
  LET rec == msgCall
      c == rec.c
      loaded == getMessages(c, UserId)
      todo == MessagesToUpdate(loaded, c) IN
  /\ rec.pos = "lm_get"
  /\ \E ok \in BOOLEAN :
       IF ~ok
       THEN /\ messages' = <<>>
            /\ MsgFinish(rec, "StorageError")
            /\ UNCHANGED <<mgrVars, codecVars, cryptoVars, parked, msgStore,
                           currentContactId, messageUnsubscribers,
                           unreadCount, lastMessageTimestamp, nMsgs>>
       ELSE /\ messages' = loaded
            /\ currentContactId' = c
            /\ messageCallbacks' =
                 [messageCallbacks EXCEPT ![c] = @ \cup {Listener}]
            /\ messageUnsubscribers' = messageUnsubscribers \cup {c}
            /\ IF todo = <<>> THEN MsgFinish(rec, "ok")
               ELSE /\ msgCall' = [rec EXCEPT !.pos = "mark", !.todo = todo]
                    /\ UNCHANGED msgOp
            /\ UNCHANGED <<mgrRest, codecVars, cryptoVars, parked, msgStore,
                           unreadCount, lastMessageTimestamp, nMsgs>>

\* clearMessages(): the listener of the current contact is removed
ClearMessages ==
  LET c == currentContactId IN
  /\ msgCall.op = "idle"
  /\ currentContactId # "none"
  /\ IF c \in messageUnsubscribers
     THEN /\ messageCallbacks' =
               [messageCallbacks EXCEPT ![c] = @ \ {Listener}]
          /\ messageUnsubscribers' = messageUnsubscribers \ {c}
     ELSE UNCHANGED <<messageCallbacks, messageUnsubscribers>>
  /\ messages' = <<>>
  /\ currentContactId' = "none"
  /\ msgOp' = [NoMsgOp EXCEPT !.op = "clearMessages", !.c = c,
                              !.result = "ok"]
  /\ UNCHANGED <<mgrRest, codecVars, cryptoVars, parked, msgStore, unreadCount,
                 lastMessageTimestamp, nMsgs, msgCall>>

\* receiving: conversations are opened and closed and the listener of one
\* contact gets payloads, each call awaited before the next
NextReceive ==
  \/ \E c \in Contacts : LoadMessages(c)
  \/ LoadGot
  \/ ClearMessages
  \/ \E c \in One, d \in Payloads : IncomingMessage(c, d)
  \/ IncomingKeyImported
  \/ IncomingDecrypted
  \/ IncomingAttachmentDecrypted
  \/ IncomingSaved
  \/ MarkSaved

SpecReceive == Init /\ [][NextReceive]_vars


\* a step that ends a call of the listener
IncomingEnds ==
  /\ msgCall'.op = "idle"
  /\ msgOp'.op = "handleIncomingMessage"
  /\ msgCall.op = "handleIncomingMessage" \/ nMsgs' # nMsgs

\* C17: a payload that does not parse, or whose text envelope or attachment
\* envelope does not decrypt, is dropped whole: the call ends without having
\* changed the stored messages, the live list, the unread counts or the
\* last-message timestamps, its promise does not reject, and no payload
\* other than a valid one gets as far as being saved.
C17_BadPayloadDroppedWhole ==
  [][/\ (IncomingEnds /\ msgOp'.result \in {"SyntaxError", "TypeError",
                          "InvalidFormat", "DecryptError", "AttachmentError"})
          => /\ UNCHANGED RecvEffects
             /\ RecvEffects' = msgOp'.before
             /\ ~msgOp'.rejected
     /\ msgCall'.pos \in {"hm_save", "mark"}
          /\ msgCall'.op = "handleIncomingMessage"
          => msgCall'.data \in ValidPayloads]_vars

C17_Witness ==
  /\ msgOp.op = "handleIncomingMessage"
  /\ msgOp.result = "AttachmentError"
  /\ msgStore # <<>>
  /\ currentContactId = msgOp.c

\* C18: when the listener has processed a valid payload from contact c, the
\* Message is stored with delivered = true; if c was the current contact
\* the message is in the live list, it is read and the unread count of c
\* has not grown; otherwise the live list is as it was, the stored message
\* is unread and the unread count of c has grown by one.
C18_ValidMessageStoredAndCounted ==
  (msgOp.op = "handleIncomingMessage" /\ msgOp.result = "ok") =>
    LET m == Stored(msgOp.id)
        c == msgOp.c
        before == msgOp.before IN
    /\ m # NoMessage
    /\ m.delivered
    /\ m.senderId = c
    /\ msgOp.active <=> currentContactId = c
    /\ IF msgOp.active
       THEN /\ \E i \in 1..Len(messages) : messages[i] = m
            /\ m.read
            /\ unreadCount[c] <= before[3][c]
       ELSE /\ messages = before[2]
            /\ ~m.read
            /\ unreadCount[c] = before[3][c] + 1

C18_Witness ==
  /\ msgOp.op = "handleIncomingMessage"
  /\ msgOp.result = "ok"
  /\ msgOp.active
  /\ Len(msgStore) = 2
  /\ ~msgStore[1].read


\* ------------------------------------------------ the handshake
\* a connectionstatechange on the way up, which the transport reports
\* before the channel that runs over it opens
TransportComesUp(t, s) ==
  /\ chState[OwnCh(t)] # "open"
  /\ chState[InCh(t)] # "open"
  /\ PcConnectionStateChange(t, s)

\* one side of a handshake that goes well: the initiator makes the offer and
\* applies the answer, the other side applies the offer; then the transport
\* comes up and the channel opens
NextHandshake ==
  \/ \E c \in One : ~HasConnection(c) /\ AwaitedSendOffer(c)
  \/ \E c \in One : FirstHandleOffer(c)
  \/ \E c \in One : AwaitedHandleAnswer("remoteAnswer", c)
  \/ \E k \in Slots : SendOfferDescribed(k)
  \/ \E k \in Slots : SendOfferSaved(k)
  \/ \E k \in Slots : HandleOfferRemoteSet(k)
  \/ \E k \in Slots : HandleOfferAnswered(k)
  \/ \E k \in Slots : HandleOfferSaved(k)
  \/ \E k \in Slots : HandleAnswerRemoteSet(k)
  \/ \E k \in Slots : HandleAnswerSaved(k)
  \/ \E ch \in ChIds : ChannelOpen(ch)
  \/ \E t \in Pcs : PcDataChannel(t)
  \/ \E t \in Pcs, s \in {"connecting", "connected"} : TransportComesUp(t, s)

SpecHandshake == Init /\ [][NextHandshake]_vars

\* a channel of the session of contact c has reported open
ChannelIsOpen(c) ==
  LET t == connections[c].peerConnection IN
  chState[OwnCh(t)] = "open" \/ chState[InCh(t)] = "open"

\* C19: in a handshake the connection state of the other peer is
\* 'connecting' from the creation of the session until the channel reports
\* open, and 'connected' once it has.
C19_ConnectingUntilChannelOpens ==
  \A c \in Contacts :
    HasConnection(c) =>
      IF ChannelIsOpen(c) THEN GetConnectionState(c) = "connected"
      ELSE GetConnectionState(c) = "connecting"


\* receive callbacks: registrations and removals for both contacts, and the
\* messages of a channel made by an offer from one of them
NextOnMessage ==
  \/ \E c \in Contacts, cb \in Callbacks : OnMessage(c, cb)
  \/ \E c \in Contacts, cb \in Callbacks : Unsubscribe(c, cb)
  \/ \E c \in One : FirstHandleOffer(c)
  \/ \E k \in Slots : HandleOfferRemoteSet(k)
  \/ \E k \in Slots : HandleOfferAnswered(k)
  \/ \E k \in Slots : HandleOfferSaved(k)
  \/ \E ch \in ChIds : ChannelOpen(ch)
  \/ \E t \in Pcs : PcDataChannel(t)
  \/ \E ch \in ChIds, m \in Msgs : ChannelMessage(ch, m)

SpecOnMessage == Init /\ [][NextOnMessage]_vars

\* C20: onMessage keeps a set of callbacks per contact: a registration adds
\* the callback to the set of its contact (a second registration of the
\* same callback leaves the set as it is), a received message invokes each
\* registered callback once, and an unsubscribe handle removes its callback
\* from the set of its contact and no other callback of any contact.
C20_OnMessageSetSemantics ==
  [][LET c == lastOp'.c
         cb == lastOp'.result IN
     /\ (lastOp'.op = "onMessage" /\ nApi' # nApi)
          => messageCallbacks' =
               [messageCallbacks EXCEPT ![c] = @ \cup {cb}]
     /\ (lastOp'.op = "unsubscribe" /\ nApi' # nApi)
          => messageCallbacks' =
               [messageCallbacks EXCEPT ![c] = @ \ {cb}]
     /\ (lastOp'.op = "channel.onmessage" /\ nEvents' # nEvents)
          => /\ lastOp'.callbacks = messageCallbacks[c]
             /\ lastOp'.dispatched = Cardinality(messageCallbacks[c])
             /\ UNCHANGED messageCallbacks]_vars

C20_Witness ==
  /\ lastOp.op = "onMessage"
  /\ lastOp.result \in lastOp.callbacks
  /\ messageCallbacks[lastOp.c] = Callbacks


\* ------------------------------------------------ the handshake bundle
\* the bundle is made while offers are made and applied and candidates are
\* found, for the contact, for one without a buffer and with no contact
NextBundle ==
  \/ \E c \in One : ~HasConnection(c) /\ AwaitedSendOffer(c)
  \/ \E c \in One : FirstHandleOffer(c)
  \/ \E k \in Slots : SendOfferDescribed(k)
  \/ \E k \in Slots : SendOfferSaved(k)
  \/ \E k \in Slots : HandleOfferRemoteSet(k)
  \/ \E k \in Slots : HandleOfferAnswered(k)
  \/ \E k \in Slots : HandleOfferSaved(k)
  \/ \E t \in Pcs : PcIceCandidate(t)
  \/ \E k \in Slots : IceGenerationSaved(k)
  \/ \E c \in Contacts \cup {"none"} : CopyPublicKey(c)

SpecBundle == Init /\ [][NextBundle]_vars

\* C21: the bundle createHandshakeData returns has version, userId,
\* username and publicKey; it has connectionData exactly when a contact was
\* given whose buffer of pending signaling data is not empty, and then
\* connectionData is that buffer, entry by entry.
C21_BundleHasBufferWhenNotEmpty ==
  [][(msgOp'.op = "copyPublicKey" /\ nMsgs' # nMsgs) =>
       LET h == msgOp'.payload
           c == msgOp'.c IN
       /\ {"version", "userId", "username", "publicKey"} \subseteq Keys(h)
       /\ Keys(h) \subseteq {"version", "userId", "username", "publicKey",
                             "connectionData"}
       /\ Get(h, "version") = "1.0"
       /\ Get(h, "userId") = UserId
       /\ Get(h, "publicKey") = UserPublicKey
       /\ Has(h, "connectionData") <=>
            (c # "none" /\ pendingSignalingData[c] # <<>>)
       /\ Has(h, "connectionData") =>
            Get(h, "connectionData") = pendingSignalingData[c]]_vars

C21_Witness ==
  /\ msgOp.op = "copyPublicKey"
  /\ Has(msgOp.payload, "connectionData")
  /\ Len(Get(msgOp.payload, "connectionData")) = 2
  /\ Get(msgOp.payload, "connectionData")[1].type = "offer"
  /\ Get(msgOp.payload, "connectionData")[2].type = "ice-candidate"


\* ------------------------------------------------ closing
\* a session is made by an offer, its channels open and close, callbacks are
\* registered, and the connection of the contact is closed again and again
NextClose ==
  \/ \E c \in One : FirstHandleOffer(c)
  \/ \E k \in Slots : HandleOfferRemoteSet(k)
  \/ \E k \in Slots : HandleOfferAnswered(k)
  \/ \E k \in Slots : HandleOfferSaved(k)
  \/ \E ch \in ChIds : ChannelOpen(ch)
  \/ \E ch \in ChIds : ChannelClose(ch)
  \/ \E t \in Pcs : PcDataChannel(t)
  \/ \E c \in One, cb \in Callbacks : OnMessage(c, cb)
  \/ \E c \in One : CloseConnection(c)

SpecClose == Init /\ [][NextClose]_vars

\* what the P2PService holds
managerState ==
  <<connections, messageCallbacks, pendingSignalingData,
    iceCandidateCallbacks, connectionStates, iceStates, pcVars, chState,
    chHandlers, pcHandlers, sent, connData>>

\* C22: closeConnection leaves the contact without a connection, and for a
\* contact without a connection it changes nothing the service holds; so a
\* second call right after the first changes nothing.
C22_CloseIsIdempotent ==
  [][(lastOp'.op = "closeConnection" /\ nApi' # nApi) =>
       /\ connections'[lastOp'.c] = NoConn
       /\ ~HasConnection(lastOp'.c) => UNCHANGED managerState]_vars

C22_Witness ==
  /\ lastOp.op = "closeConnection"
  /\ lastOp.result = "noop"
  /\ connectionStates[lastOp.c] # "absent"
  /\ \E t \in Pcs : pcContact[t] = lastOp.c /\ pcClosed[t]


\* ------------------------------------------------ what the transport reports
\* RTCPeerConnectionState of an open connection
PcStates == {"new", "connecting", "connected", "disconnected", "failed"}

\* a session made by an offer of either side, and every
\* connectionstatechange its transport can report
NextTransport ==
  \/ \E c \in One : ~HasConnection(c) /\ AwaitedSendOffer(c)
  \/ \E c \in One : FirstHandleOffer(c)
  \/ \E c \in One : AwaitedHandleAnswer("remoteAnswer", c)
  \/ \E k \in Slots : SendOfferDescribed(k)
  \/ \E k \in Slots : SendOfferSaved(k)
  \/ \E k \in Slots : HandleAnswerRemoteSet(k)
  \/ \E k \in Slots : HandleAnswerSaved(k)
  \/ \E k \in Slots : HandleOfferRemoteSet(k)
  \/ \E k \in Slots : HandleOfferAnswered(k)
  \/ \E k \in Slots : HandleOfferSaved(k)
  \/ \E ch \in ChIds : ChannelOpen(ch)
  \/ \E t \in Pcs : PcDataChannel(t)
  \/ \E t \in Pcs, s \in PcStates : PcConnectionStateChange(t, s)

SpecTransport == Init /\ [][NextTransport]_vars

\* C23: the connection state of every contact, in the connection object and
\* in the state map and as getConnectionState returns it, is one of
\* connecting, connected, disconnected and failed.
C23_ConnectionStateInRange ==
  \A c \in Contacts :
    /\ GetConnectionState(c) \in ConnStates
    /\ HasConnection(c) => connections[c].connectionState \in ConnStates


\* ------------------------------------------------ calls in flight together
MaxParked == 1

\* the call that is running reaches an await whose promise is not settled
\* yet: it waits, and the event loop is free for another task
Park ==
  /\ msgCall.op # "idle"
  /\ Cardinality(parked) < MaxParked
  /\ parked' = parked \cup {msgCall}
  /\ msgCall' = IdleMsgCall
  /\ UNCHANGED <<mgrVars, codecVars, cryptoVars, msgStore, messages,
                 currentContactId, messageUnsubscribers, unreadCount,
                 lastMessageTimestamp, nMsgs, msgOp>>

\* the promise a waiting call awaits is settled: the call runs on
Resume ==
  /\ msgCall.op = "idle"
  /\ \E rec \in parked :
       /\ parked' = parked \ {rec}
       /\ msgCall' = rec
  /\ UNCHANGED <<mgrVars, codecVars, cryptoVars, msgStore, messages,
                 currentContactId, messageUnsubscribers, unreadCount,
                 lastMessageTimestamp, nMsgs, msgOp>>

\* the payloads of a conversation that goes well
RacePayloads ==
  {JsonObject(<<<<"encryptedContent", GoodEnvelope>>,
                <<"timestamp", PeerStamp>>>>),
   JsonObject(<<<<"encryptedContent", GoodEnvelope>>,
                <<"attachment", AttachmentMembers(GoodAttachmentEnvelope)>>,
                <<"timestamp", PeerStamp>>>>)}

\* messages arrive on the channel of the open conversation while earlier
\* ones are still being decrypted and saved
NextRace ==
  \/ \E c \in One : LoadMessages(c)
  \/ LoadGot
  \/ \E c \in One, d \in RacePayloads : IncomingMessage(c, d)
  \/ IncomingKeyImported
  \/ IncomingDecrypted
  \/ IncomingAttachmentDecrypted
  \/ IncomingSaved
  \/ MarkSaved
  \/ Park
  \/ Resume

SpecRace == Init /\ [][NextRace]_vars

\* the messages of msgs that came from contact c are in the order of their
\* arrival (the id of a received message is the number of its arrival)
InArrivalOrder(msgs, c) ==
  \A i, j \in 1..Len(msgs) :
    (i < j /\ msgs[i].senderId = c /\ msgs[j].senderId = c)
      => msgs[i].id < msgs[j].id

\* C24: the messages received from a contact are stored, and are in the
\* live list, in the order in which they arrived on the channel.
C24_ReceivedInArrivalOrder ==
  \A c \in Contacts :
    InArrivalOrder(msgStore, c) /\ InArrivalOrder(messages, c)


\* ------------------------------------------------ order of the export buffer
\* every ice-candidate entry of the buffer has an offer or answer before it
DescriptionFirst(buf) ==
  \A i \in 1..Len(buf) :
    buf[i].type = "ice-candidate"
      => \E j \in 1..(i - 1) : buf[j].type \in {"offer", "answer"}

\* m is in the buffer, before every ice-candidate entry of it
BeforeEveryCandidate(m, buf) ==
  \E i \in 1..Len(buf) :
    /\ buf[i] = m
    /\ \A j \in 1..Len(buf) : buf[j].type = "ice-candidate" => i < j

\* the call in slot k is a sendOffer that returns its SignalingData here
SendOfferReturns(k) ==
  /\ calls[k].op = "sendOffer"
  /\ calls[k].top = "direct"
  /\ calls'[k].pos = "idle"
  /\ lastOp'.op = "sendOffer"
  /\ lastOp'.result = "ok"

\* C25: the buffer of signaling data kept for export starts with the local
\* offer or answer and has the ice-candidates after it, in every state; and
\* when sendOffer(c) returns, the offer it returns is in the buffer of c
\* before every ice-candidate entry.
C25_OfferBeforeCandidates ==
  /\ [](\A c \in Contacts : DescriptionFirst(pendingSignalingData[c]))
  /\ [][\A k \in Slots :
          SendOfferReturns(k) =>
            BeforeEveryCandidate(SigData("offer", calls[k].c, "localOffer"),
                                 pendingSignalingData'[calls[k].c])]_vars


\* ------------------------------------------------ two contacts
\* sessions of two contacts side by side: each contact can get a session by
\* an offer and a callback; the session of alice is also made by sendOffer,
\* answered, fed candidates, used and closed while the one of bob exists
NextPartition ==
  \/ \E c \in Contacts : FirstHandleOffer(c)
  \/ \E c \in One : AwaitedSendOffer(c)
  \/ \E c \in One : AwaitedHandleAnswer("remoteAnswer", c)
  \/ \E c \in One : AwaitedHandleIceCandidate("rc1", c)
  \/ \E c \in One : CloseConnection(c)
  \/ \E c \in Contacts : OnMessage(c, "cb1")
  \/ \E c \in One, m \in Msgs : SendMessage(m, c)
  \/ \E k \in Slots : CreateResume(k)
  \/ \E k \in Slots : SendOfferDescribed(k)
  \/ \E k \in Slots : SendOfferSaved(k)
  \/ \E k \in Slots : HandleOfferRemoteSet(k)
  \/ \E k \in Slots : HandleOfferAnswered(k)
  \/ \E k \in Slots : HandleOfferSaved(k)
  \/ \E k \in Slots : HandleAnswerRemoteSet(k)
  \/ \E k \in Slots : HandleAnswerSaved(k)
  \/ \E k \in Slots : HandleIceCandidateSaved(k)
  \/ \E k \in Slots : HandleIceCandidateAdded(k)
  \/ \E ch \in ChIds : ChannelOpen(ch)
  \/ \E ch \in ChIds : ChannelClose(ch)
  \/ \E ch \in ChIds : ChannelError(ch)
  \/ \E t \in Pcs, s \in ConnStates : PcConnectionStateChange(t, s)

SpecPartition == Init /\ [][NextPartition]_vars

\* what the service records for contact c
SessionOf(c) ==
  <<connections[c], connectionStates[c], iceStates[c], messageCallbacks[c],
    pendingSignalingData[c]>>

\* C26: a call or an event for one contact (lastOp'.c is the contact of the
\* step) leaves the connection, the connection and ice state, the receive
\* callbacks and the signaling buffer of every other contact as they were.
C26_OtherContactsUnchanged ==
  [][\A b \in Contacts : b # lastOp'.c => SessionOf(b)' = SessionOf(b)]_vars

\* a session of alice is closed while bob has a session, a callback and
\* buffered signaling data
C26_Witness ==
  /\ lastOp.op = "closeConnection"
  /\ lastOp.c = "alice"
  /\ lastOp.result = "ok"
  /\ HasConnection("bob")
  /\ pendingSignalingData["bob"] # <<>>


\* ------------------------------------------------ what gets stored
\* the received messages of msgs were built from a payload with an
\* encrypted envelope (message.encrypted is !!payload.encryptedContent, and
\* the content of such a message is what decryptMessageHybrid returned)
AllDecrypted(msgs) ==
  \A i \in 1..Len(msgs) : msgs[i].senderId \in Contacts => msgs[i].encrypted

\* C27: every received message that is stored or in the live list has
\* content that came out of a successful decryption with the user's
\* private key; a payload without an encrypted envelope is never stored or
\* shown.
C27_StoredContentWasDecrypted ==
  AllDecrypted(msgStore) /\ AllDecrypted(messages)


\* ------------------------------------------------ events of a replaced session
\* this step is an event of the transport t or of one of its channels
EventOf(t) ==
  /\ nEvents' # nEvents
  /\ lastOp'.pc = t

\* t was closed and its contact has a session on another transport
Replaced(t) ==
  /\ pcClosed[t]
  /\ HasConnection(pcContact[t])
  /\ connections[pcContact[t]].peerConnection # t

\* C28: an event of a session that was closed and replaced changes nothing
\* of what is recorded for the contact, which belongs to the new session.
C28_LateEventsLeaveNewSession ==
  [][\A t \in Pcs :
       (EventOf(t) /\ Replaced(t)) =>
         SessionOf(pcContact[t])' = SessionOf(pcContact[t])]_vars


\* ------------------------------------------------ switching conversations
\* the user sends in the open conversation
SendToCurrent ==
  /\ currentContactId \in Contacts
  /\ MessageSend(<<97>>, currentContactId, FALSE, <<>>)

\* conversations are opened one after the other while sends and received
\* messages of the one opened before are still on their way
NextSwitch ==
  \/ \E c \in Contacts : LoadMessages(c)
  \/ LoadGot
  \/ MarkSaved
  \/ SendToCurrent
  \/ SendKeyImported
  \/ SendEncrypted
  \/ SendSaved
  \/ \E c \in One :
        IncomingMessage(c, JsonObject(<<<<"encryptedContent", GoodEnvelope>>,
                                        <<"timestamp", PeerStamp>>>>))
  \/ IncomingKeyImported
  \/ IncomingDecrypted
  \/ IncomingSaved
  \/ Park
  \/ Resume

SpecSwitch == Init /\ [][NextSwitch]_vars

NoLoadInFlight ==
  /\ msgCall.op # "loadMessages"
  /\ \A rec \in parked : rec.op # "loadMessages"

\* m was exchanged between the user and contact c
InConversation(m, c) ==
  \/ m.senderId = c /\ m.recipientId = UserId
  \/ m.senderId = UserId /\ m.recipientId = c

\* C29: while no loadMessages call is in flight, every message of the live
\* list belongs to the conversation with the current contact.
C29_LiveListIsCurrentConversation ==
  NoLoadInFlight =>
    \A i \in 1..Len(messages) : InConversation(messages[i], currentContactId)


\* ------------------------------------------------ delivery to the conversation
\* channel.onmessage of an open channel, with the listener of MessageService
\* as the callback: the listener is called if it is in the Set of the
\* contact, and with no callback the message is dropped
ChannelDelivers(ch, messageData) ==
  LET t == ChPc(ch)
      c == pcContact[t] IN
  /\ ~MicrotaskPending
  /\ ch \in chHandlers
  /\ ~pcClosed[t]
  /\ chState[ch] = "open"
  /\ IF Listener \in messageCallbacks[c]
     THEN IncomingMessage(c, messageData)
     ELSE /\ nMsgs < MaxMessages
          /\ nMsgs' = nMsgs + 1
          /\ msgOp' = [NoMsgOp EXCEPT !.op = "channel.onmessage", !.c = c,
                                      !.result = "dropped"]
          /\ UNCHANGED <<mgrVars, codecVars, cryptoVars, parked, msgStore,
                         messages, currentContactId, messageUnsubscribers,
                         unreadCount, lastMessageTimestamp, msgCall>>

\* a message of the peer arrives for a conversation that has been opened
ArrivesForConversation(ch) ==
  /\ pcContact[ChPc(ch)] \in messageUnsubscribers
  /\ ChannelDelivers(ch, JsonObject(<<<<"encryptedContent", GoodEnvelope>>,
                                      <<"timestamp", PeerStamp>>>>))

\* the conversation with alice is opened, a session with alice is made by
\* an offer and made again by another one, its channel opens, and messages
\* arrive on it once the conversation has been opened
NextDelivery ==
  \/ \E c \in One : LoadMessages(c)
  \/ LoadGot
  \/ MarkSaved
  \/ \E c \in One : AwaitedHandleOffer("remoteOffer", c)
  \/ \E k \in Slots : CreateResume(k)
  \/ \E k \in Slots : HandleOfferRemoteSet(k)
  \/ \E k \in Slots : HandleOfferAnswered(k)
  \/ \E k \in Slots : HandleOfferSaved(k)
  \/ \E t \in Pcs : PcDataChannel(t)
  \/ \E ch \in ChIds : ArrivesForConversation(ch)
  \/ IncomingKeyImported
  \/ IncomingDecrypted
  \/ IncomingSaved

\* a continuation of handleIncomingMessage or markAsRead runs once the
\* promise it awaits is settled: the event loop leaves no ready task waiting.
\* IncomingDecrypted is enabled exactly when the call is at hm_decrypt and
\* every step of it leaves hm_decrypt, so its weak fairness is written as
\* the formula on the position of the call.
SpecDelivery ==
  /\ Init
  /\ [][NextDelivery]_vars
  /\ WF_vars(IncomingKeyImported)
  /\ []<>(msgCall.pos # "hm_decrypt")
  /\ WF_vars(IncomingSaved)
  /\ WF_vars(MarkSaved)

\* a key import, a decryption or a storage request of a received message
\* has failed
ReceiveFailed ==
  /\ msgOp.op = "handleIncomingMessage"
  /\ msgOp.result \notin {"pending", "ok"}

\* the n-th message that arrived is stored
Persisted(n) == \E i \in 1..Len(msgStore) : msgStore[i].id = n

\* the n-th message has arrived: the listener is running on it, or the
\* channel had no callback to hand it to
Arrived(n) ==
  \/ msgCall.op = "handleIncomingMessage" /\ msgCall.seq = n
  \/ nMsgs = n /\ msgOp.op = "channel.onmessage" /\ msgOp.result = "dropped"

\* C30: with the listener of the conversation registered by loadMessages,
\* every message that arrives on the open channel of the contact's session,
\* made or made again after the registration, is eventually handed to the
\* listener and stored, unless its decryption or a storage request fails.
C30_ArrivedIsEventuallyPersisted ==
  \A n \in 1..MaxMessages :
    Arrived(n) ~> (Persisted(n) \/ ReceiveFailed)


\* the same with a session that is made once and never made again
NextFirstDelivery ==
  \/ \E c \in One : LoadMessages(c)
  \/ LoadGot
  \/ MarkSaved
  \/ \E c \in One : FirstHandleOffer(c)
  \/ \E k \in Slots : HandleOfferRemoteSet(k)
  \/ \E k \in Slots : HandleOfferAnswered(k)
  \/ \E k \in Slots : HandleOfferSaved(k)
  \/ \E t \in Pcs : PcDataChannel(t)
  \/ \E ch \in ChIds : ArrivesForConversation(ch)
  \/ IncomingKeyImported
  \/ IncomingDecrypted
  \/ IncomingSaved

SpecFirstDelivery ==
  /\ Init
  /\ [][NextFirstDelivery]_vars
  /\ WF_vars(IncomingKeyImported)
  /\ []<>(msgCall.pos # "hm_decrypt")
  /\ WF_vars(IncomingSaved)
  /\ WF_vars(MarkSaved)

============================================================================
